---------------------------- MODULE Spec2Model ----------------------------
(***************************************************************************)
(* A model of the spatial-explorer parsers: the universal format detector *)
(* (parsers/universal.py), the per-platform file discoverers and table    *)
(* loaders (parsers/cosmx.py, merscope.py, visium.py, visium_hd.py,       *)
(* xenium.py).                                                             *)
(*                                                                         *)
(* File names are TLA+ strings handled character by character (substring, *)
(* prefix, suffix, lower-casing, pathlib's suffixes), so that the name     *)
(* tests of the code are computed and not assumed.  The file system is    *)
(* case-sensitive (POSIX), as in the repository's tests.                  *)
(***************************************************************************)
EXTENDS Integers, Sequences, FiniteSets, TLC

VARIABLES
    input,      \* the path handed to load_spatial: a file or a directory tree
    pc,         \* position of the load_spatial call
    det,        \* result of detect_spatial_format (a DetectionResult or an error)
    out,        \* result of load_spatial (a dataset or an error)
    tbl,        \* the source table handed to a table loader
    plat,       \* the platform whose loader is applied
    res,        \* the loader's result
    installed,  \* the optional readers (scipy, h5py, a parquet engine) the last
                \* call could import
    modules     \* sys.modules as far as `import parsers` and attribute access
                \* on the package filled it

vars == <<input, pc, det, out, tbl, plat, res, installed, modules>>

NoModules == {}

(***************************************************************************)
(* Strings (python str methods used by the parsers)                        *)
(***************************************************************************)
UpperAlpha == "ABCDEFGHIJKLMNOPQRSTUVWXYZ"
LowerAlpha == "abcdefghijklmnopqrstuvwxyz"
\* Characters in ASCII order (the ones that occur in the modelled names).
AsciiOrder == " -.0123456789ABCDEFGHIJKLMNOPQRSTUVWXYZ_abcdefghijklmnopqrstuvwxyz"

CharAt(s, i) == SubSeq(s, i, i)

\* upper-case letter -> lower-case letter
LowerOf ==
    [c \in {CharAt(UpperAlpha, i) : i \in 1..Len(UpperAlpha)} |->
        CharAt(LowerAlpha, CHOOSE i \in 1..Len(UpperAlpha) : CharAt(UpperAlpha, i) = c)]

LowerChar(c) == IF c \in DOMAIN LowerOf THEN LowerOf[c] ELSE c

RECURSIVE StrLower(_)
\* str.lower()
StrLower(s) ==
    IF s = "" THEN "" ELSE LowerChar(CharAt(s, 1)) \o StrLower(Tail(s))

\* `pat in s`
Contains(s, pat) ==
    \E i \in 1..(Len(s) - Len(pat) + 1) : SubSeq(s, i, i + Len(pat) - 1) = pat

\* str.startswith / str.endswith
StartsWith(s, pat) == Len(pat) <= Len(s) /\ SubSeq(s, 1, Len(pat)) = pat
EndsWith(s, pat) == Len(pat) <= Len(s) /\ SubSeq(s, Len(s) - Len(pat) + 1, Len(s)) = pat

RECURSIVE LStripDots(_)
\* str.lstrip('.')
LStripDots(s) == IF s # "" /\ CharAt(s, 1) = "." THEN LStripDots(Tail(s)) ELSE s

\* "".join(PurePath(name).suffixes): pathlib drops the suffixes of a name that
\* ends with a dot, strips leading dots, and keeps everything from the first
\* remaining dot on.
JoinedSuffixes(name) ==
    IF EndsWith(name, ".") THEN ""
    ELSE LET n == LStripDots(name)
             dots == {i \in 1..Len(n) : CharAt(n, i) = "."}
         IN  IF dots = {} THEN ""
             ELSE LET first == CHOOSE i \in dots : \A j \in dots : i <= j
                  IN  SubSeq(n, first, Len(n))

CodeOf ==
    [c \in {CharAt(AsciiOrder, i) : i \in 1..Len(AsciiOrder)} |->
        CHOOSE i \in 1..Len(AsciiOrder) : CharAt(AsciiOrder, i) = c]
CharCode(c) == CodeOf[c]

RECURSIVE StrLess(_, _)
\* python's str `<` (lexicographic by code point)
StrLess(a, b) ==
    IF b = "" THEN FALSE
    ELSE IF a = "" THEN TRUE
    ELSE IF CharAt(a, 1) = CharAt(b, 1) THEN StrLess(Tail(a), Tail(b))
    ELSE CharCode(CharAt(a, 1)) < CharCode(CharAt(b, 1))

(***************************************************************************)
(* File system: a node is a file or a directory with a set of children     *)
(***************************************************************************)
NoContent == [type |-> "none"]
File(n, c) == [name |-> n, kind |-> "file", kids |-> {}, listing |-> <<>>, content |-> c]
\* a directory whose entries the operating system lists in the order of ks
Dir(n, ks) ==
    [name |-> n, kind |-> "dir", kids |-> {ks[i] : i \in 1..Len(ks)},
     listing |-> [i \in 1..Len(ks) |-> ks[i].name], content |-> NoContent]

\* a path that names nothing
Missing(n) == [name |-> n, kind |-> "missing", kids |-> {}, listing |-> <<>>, content |-> NoContent]

IsFile(p) == p.kind = "file"
IsDir(p) == p.kind = "dir"

\* {c.name.lower() for c in p.iterdir()}
LowerNames(p) == {StrLower(c.name) : c \in p.kids}

\* (p / name).exists()
HasChild(p, n) == \E c \in p.kids : c.name = n
Child(p, n) == CHOOSE c \in p.kids : c.name = n

RECURSIVE SortedNodes(_)
\* sorted(p.iterdir()): by name
SortedNodes(S) ==
    IF S = {} THEN <<>>
    ELSE LET m == CHOOSE c \in S : \A d \in S \ {c} : StrLess(c.name, d.name)
         IN  <<m>> \o SortedNodes(S \ {m})


(***************************************************************************)
(* universal.py: detect_spatial_format                                     *)
(***************************************************************************)
Detection(platform, reason) == [ok |-> TRUE, platform |-> platform, reason |-> reason]
DetectError(msg) == [ok |-> FALSE, platform |-> "none", reason |-> msg]
NoMatch == [ok |-> FALSE, platform |-> "none", reason |-> "no match"]

TabularSuffixes == {".csv", ".tsv", ".txt", ".csv.gz", ".tsv.gz", ".txt.gz"}

\* _is_tabular_file
IsTabularFile(name) == StrLower(JoinedSuffixes(name)) \in TabularSuffixes

merscope_signature ==
    {"detected_transcripts.csv", "detected_transcripts.parquet",
     "cell_by_gene.csv", "cell_by_gene.parquet",
     "entity_by_gene.csv", "entity_by_gene.parquet"}

\* _dirnames: the lower-cased child names, empty when d cannot be listed
Dirnames(d) == IF IsDir(d) THEN LowerNames(d) ELSE {}

HasTranscriptsName(dn) == \E n \in dn : Contains(n, "detected_transcripts")
HasByGeneName(dn) == \E n \in dn : Contains(n, "cell_by_gene") \/ Contains(n, "entity_by_gene")
HasTableSuffix(dn) ==
    \E n \in dn : EndsWith(n, ".csv") \/ EndsWith(n, ".csv.gz") \/ EndsWith(n, ".parquet")

MerscopeStrong(dn) == merscope_signature \cap dn # {}
MerscopeMedium(dn) == HasTranscriptsName(dn) /\ HasByGeneName(dn)
MerscopeWeak(dn) == (HasTranscriptsName(dn) \/ HasByGeneName(dn)) /\ HasTableSuffix(dn)

\* _merscope_in_dir
MerscopeInDir(d, label) ==
    LET dn == Dirnames(d)
    IN  IF MerscopeStrong(dn)
        THEN Detection("merscope", "matched MERSCOPE signature in " \o label)
        ELSE IF MerscopeMedium(dn)
        THEN Detection("merscope",
                 "found detected_transcripts* and cell_by_gene*/entity_by_gene* in " \o label)
        ELSE IF MerscopeWeak(dn)
        THEN Detection("merscope", "weak MERSCOPE match in " \o label)
        ELSE NoMatch

RECURSIVE ChildRoots(_)
\* the loop over sorted(p.iterdir()) that extends to_check
ChildRoots(cs) ==
    IF cs = <<>> THEN <<>>
    ELSE LET child == Head(cs)
         IN  (IF ~IsDir(child) THEN <<>>
              ELSE <<[d |-> child, label |-> "child:" \o child.name]>>
                   \o (IF HasChild(child, "analysis_outputs")
                       THEN <<[d |-> Child(child, "analysis_outputs"),
                               label |-> "child:" \o child.name \o "/analysis_outputs"]>>
                       ELSE <<>>))
             \o ChildRoots(Tail(cs))

\* to_check with the children taken as the system lists them, unsorted
ToCheckAsListed(p) ==
    <<[d |-> p, label |-> "root"]>>
    \o (IF HasChild(p, "analysis_outputs")
        THEN <<[d |-> Child(p, "analysis_outputs"), label |-> "analysis_outputs"]>>
        ELSE <<>>)
    \o ChildRoots([i \in 1..Len(p.listing) |-> Child(p, p.listing[i])])

\* to_check
ToCheck(p) ==
    <<[d |-> p, label |-> "root"]>>
    \o (IF HasChild(p, "analysis_outputs")
        THEN <<[d |-> Child(p, "analysis_outputs"), label |-> "analysis_outputs"]>>
        ELSE <<>>)
    \o ChildRoots(SortedNodes(p.kids))

RECURSIVE FirstMerscope(_)
\* for d, label in to_check: first non-None _merscope_in_dir
FirstMerscope(tc) ==
    IF tc = <<>> THEN NoMatch
    ELSE LET r == MerscopeInDir(Head(tc).d, Head(tc).label)
         IN  IF r.ok THEN r ELSE FirstMerscope(Tail(tc))

HasFeatureBcMatrix(names) ==
    \/ "filtered_feature_bc_matrix" \in names
    \/ "filtered_feature_bc_matrix.h5" \in names
    \/ "raw_feature_bc_matrix" \in names
    \/ "raw_feature_bc_matrix.h5" \in names

TissuePositionNames ==
    {"tissue_positions.csv", "tissue_positions_list.csv",
     "tissue_positions.parquet", "tissue_positions_list.parquet"}

\* _looks_like_visium_root
LooksLikeVisiumRoot(p, names) ==
    IF "spatial" \notin names THEN FALSE
    ELSE IF ~HasFeatureBcMatrix(names) THEN FALSE
    ELSE LET spatial_names ==
                 IF HasChild(p, "spatial") /\ IsDir(Child(p, "spatial"))
                 THEN LowerNames(Child(p, "spatial")) ELSE {}
         IN  TissuePositionNames \cap spatial_names # {}

\* the direct-bin heuristic at the end of _looks_like_visium_hd_root
LooksLikeBinDir(p, names, parent) ==
    /\ "spatial" \in names
    /\ HasFeatureBcMatrix(names)
    /\ LET nm == StrLower(p.name)
       IN  \/ StartsWith(nm, "square_") /\ Contains(nm, "um")
           \/ StrLower(parent) = "binned_outputs"

\* _looks_like_visium_hd_root: listing binned_outputs raises (and the function
\* returns False) when no child has exactly that name or it is not a directory.
LooksLikeVisiumHdRoot(p, names, parent) ==
    IF "binned_outputs" \in names
    THEN IF ~HasChild(p, "binned_outputs") \/ ~IsDir(Child(p, "binned_outputs"))
         THEN FALSE
         ELSE IF \E d \in Child(p, "binned_outputs").kids :
                     /\ IsDir(d)
                     /\ (LooksLikeVisiumRoot(d, LowerNames(d)) \/ "spatial" \in LowerNames(d))
              THEN TRUE
              ELSE LooksLikeBinDir(p, names, parent)
    ELSE LooksLikeBinDir(p, names, parent)

XeniumSignature ==
    {"transcripts.parquet", "cells.parquet", "cell_feature_matrix.h5", "experiment.xenium"}
CosmxSignature == {"tx_file.csv", "cell_metadata.csv", "exprmat_file.csv"}

XeniumStrong(names) == XeniumSignature \cap names # {}
XeniumPair(names) ==
    (\E n \in names : StartsWith(n, "transcripts")) /\ (\E n \in names : StartsWith(n, "cells"))
XeniumMatrixDir(names) == "cell_feature_matrix" \in names
CosmxStrong(names) == CosmxSignature \cap names # {}
CosmxPair(names) ==
    /\ \E n \in names : Contains(n, "tx_") \/ Contains(n, "transcript")
    /\ \E n \in names : Contains(n, "cell_metadata") \/ Contains(n, "cellmeta")

\* tabulars = [c for c in p.iterdir() if c.is_file() and _is_tabular_file(c)]
Tabulars(p) == {c \in p.kids : IsFile(c) /\ IsTabularFile(c.name)}

\* the directory branch of detect_spatial_format after the MERSCOPE roots
DetectAfterMerscope(p, names, parent) ==
    IF LooksLikeVisiumHdRoot(p, names, parent)
    THEN Detection("visium_hd", "found Space Ranger binned_outputs/")
    ELSE IF LooksLikeVisiumRoot(p, names)
    THEN Detection("visium", "found spatial/tissue_positions* and feature_bc_matrix")
    ELSE IF XeniumStrong(names)
    THEN Detection("xenium", "matched Xenium signature filename")
    ELSE IF XeniumPair(names)
    THEN Detection("xenium", "found transcripts* and cells* files")
    ELSE IF XeniumMatrixDir(names)
    THEN Detection("xenium", "found cell_feature_matrix directory")
    ELSE IF CosmxStrong(names)
    THEN Detection("cosmx", "matched CosMx signature filename")
    ELSE IF CosmxPair(names)
    THEN Detection("cosmx", "found tx/transcript and cell metadata files")
    ELSE IF Cardinality(Tabulars(p)) = 1
    THEN Detection("tabular", "directory contains single tabular file: "
                                 \o (CHOOSE c \in Tabulars(p) : TRUE).name)
    ELSE DetectError("ValueError: could not determine spatial format for directory")

\* a detector that tries the signature rules of the other platforms before the
\* MERSCOPE roots
DetectSignaturesFirst(input_path) ==
    LET p == input_path.node
        parent == input_path.parts[Len(input_path.parts) - 1]
    IN  IF IsFile(p)
        THEN IF IsTabularFile(p.name)
             THEN Detection("tabular", "file suffix=" \o StrLower(JoinedSuffixes(p.name)))
             ELSE DetectError("ValueError: input is a file, but not a supported tabular format")
        ELSE IF ~IsDir(p)
        THEN DetectError("ValueError: input path is neither a file nor a directory")
        ELSE LET m == FirstMerscope(ToCheck(p))
                 a == DetectAfterMerscope(p, LowerNames(p), parent)
             IN  IF a.ok /\ a.platform # "tabular" THEN a
                 ELSE IF m.ok THEN m ELSE a

\* detect_spatial_format
DetectSpatialFormat(input_path) ==
    LET p == input_path.node
        parent == input_path.parts[Len(input_path.parts) - 1]
    IN  IF IsFile(p)
        THEN IF IsTabularFile(p.name)
             THEN Detection("tabular", "file suffix=" \o StrLower(JoinedSuffixes(p.name)))
             ELSE DetectError("ValueError: input is a file, but not a supported tabular format")
        ELSE IF ~IsDir(p)
        THEN DetectError("ValueError: input path is neither a file nor a directory")
        ELSE LET m == FirstMerscope(ToCheck(p))
             IN  IF m.ok THEN m ELSE DetectAfterMerscope(p, LowerNames(p), parent)


(***************************************************************************)
(* Tables (what pandas hands to the loaders)                               *)
(*                                                                         *)
(* A table is [cols, rows]: the header as read, and the rows as sequences  *)
(* of cells aligned with the header.  A cell is missing (NA), an integer   *)
(* (Num) or text (Str).  read_csv never yields two equal header names;     *)
(* headers here are also distinct after trimming.                          *)
(***************************************************************************)
NA == [k |-> "na", v |-> 0]
Num(n) == [k |-> "num", v |-> n]
\* the number n + 1/2 (a float with a fractional part)
Half(n) == [k |-> "half", v |-> n]
Str(s) == [k |-> "str", v |-> s]
IsNA(c) == c.k = "na"
IsNumber(c) == c.k \in {"num", "half"}

Table(cols, rows) == [cols |-> cols, rows |-> rows]
\* python's None for an unresolved column
None == "<None>"

Digits == "0123456789"
DigitValues == [c \in {CharAt(Digits, i) : i \in 1..Len(Digits)} |->
                   (CHOOSE i \in 1..Len(Digits) : CharAt(Digits, i) = c) - 1]
IsDigit(c) == c \in DOMAIN DigitValues
DigitVal(c) == DigitValues[c]

RECURSIVE ParseDigits(_, _)
ParseDigits(s, acc) ==
    IF s = "" THEN acc ELSE ParseDigits(Tail(s), 10 * acc + DigitVal(CharAt(s, 1)))

RECURSIVE StrStrip(_)
\* str.strip() (blanks)
StrStrip(s) ==
    IF s = "" THEN ""
    ELSE IF CharAt(s, 1) = " " THEN StrStrip(Tail(s))
    ELSE IF CharAt(s, Len(s)) = " " THEN StrStrip(SubSeq(s, 1, Len(s) - 1))
    ELSE s

IsIntLiteral(s) ==
    LET body == IF StartsWith(s, "-") THEN Tail(s) ELSE s
    IN  body # "" /\ \A i \in 1..Len(body) : IsDigit(CharAt(body, i))

\* text of the form <integer>.5
IsHalfLiteral(s) ==
    /\ EndsWith(s, ".5")
    /\ IsIntLiteral(SubSeq(s, 1, Len(s) - 2))

\* pd.to_numeric(..., errors="coerce") on one cell: numbers stay, numeric text
\* is parsed, anything else becomes missing
ToNumeric(c) ==
    IF IsNumber(c) THEN c
    ELSE IF c.k = "str" /\ IsIntLiteral(StrStrip(c.v))
    THEN LET t == StrStrip(c.v)
         IN  IF StartsWith(t, "-") THEN Num(0 - ParseDigits(Tail(t), 0))
             ELSE Num(ParseDigits(t, 0))
    ELSE IF c.k = "str" /\ IsHalfLiteral(StrStrip(c.v))
    THEN LET t == StrStrip(c.v)
             whole == SubSeq(t, 1, Len(t) - 2)
         IN  IF StartsWith(t, "-") THEN Half(0 - ParseDigits(Tail(whole), 0) - 1)
             ELSE Half(ParseDigits(whole, 0))
    ELSE NA

\* Series.astype(int) on one number: the fractional part is cut off (towards 0)
AsInt(c) ==
    IF c.k = "half" THEN (IF c.v >= 0 THEN c.v ELSE c.v + 1) ELSE c.v

RECURSIVE NatToStr(_)
NatToStr(n) ==
    IF n < 10 THEN CharAt(Digits, n + 1)
    ELSE NatToStr(n \div 10) \o CharAt(Digits, (n % 10) + 1)

\* str(n)
IntToStr(n) == IF n < 0 THEN "-" \o NatToStr(0 - n) ELSE NatToStr(n)

\* Series.astype("string") on one cell: missing stays missing
AsStringDtype(c) ==
    IF c.k = "num" THEN Str(IntToStr(c.v))
    ELSE IF c.k = "half"
    THEN Str((IF c.v >= 0 THEN NatToStr(c.v) ELSE "-" \o NatToStr(0 - c.v - 1)) \o ".5")
    ELSE c

\* Series.astype(str) on one cell: a missing value becomes the text "nan"
AsPyStr(c) ==
    IF c.k = "na" THEN Str("nan") ELSE AsStringDtype(c)

\* _standardize_columns
StandardizeColumns(df) == Table([i \in 1..Len(df.cols) |-> StrStrip(df.cols[i])], df.rows)

\* _lower_map_columns: lower-cased name -> original name, first occurrence wins
LowerMapColumns(df) ==
    LET low(i) == StrLower(StrStrip(df.cols[i]))
    IN  [l \in {low(i) : i \in 1..Len(df.cols)} |->
            df.cols[CHOOSE i \in 1..Len(df.cols) :
                        /\ low(i) = l
                        /\ \A j \in 1..(i - 1) : low(j) # l]]

\* _first_present
FirstPresent(colmap, candidates) ==
    IF \E i \in 1..Len(candidates) : candidates[i] \in DOMAIN colmap
    THEN colmap[candidates[CHOOSE i \in 1..Len(candidates) :
                               /\ candidates[i] \in DOMAIN colmap
                               /\ \A j \in 1..(i - 1) : candidates[j] \notin DOMAIN colmap]]
    ELSE None

\* df[name]: the cells of the column called name
ColIndex(df, name) == CHOOSE i \in 1..Len(df.cols) : df.cols[i] = name
Column(df, name) == [r \in 1..Len(df.rows) |-> df.rows[r][ColIndex(df, name)]]
\* a scalar broadcast over the rows of df
Broadcast(df, c) == [r \in 1..Len(df.rows) |-> c]
MapCol(Op(_), col) == [r \in 1..Len(col) |-> Op(col[r])]

\* pd.DataFrame({k1: col1, ...}): the columns are the dict's keys in insertion order
Frame(keys, columns) ==
    Table(keys,
          IF Len(columns) = 0 THEN <<>>
          ELSE [r \in 1..Len(columns[1]) |-> [j \in 1..Len(keys) |-> columns[j][r]]])

Loaded(df) == [ok |-> TRUE, df |-> df, err |-> "", missing |-> <<>>, found |-> <<>>]
\* a ValueError raised by a loader: the logical fields it names as missing and
\* the columns it reports as found
LoadError(kind, missing, found) ==
    [ok |-> FALSE, df |-> Table(<<>>, <<>>), err |-> kind, missing |-> missing, found |-> found]

TRANSCRIPT_REQUIRED_OUT_COLS == <<"x", "y", "gene", "cell_id">>
CELL_REQUIRED_OUT_COLS == <<"cell_id", "x", "y", "cell_type">>

\* _empty_transcript_df / _empty_cell_metadata_df
EmptyTranscriptDf == Table(TRANSCRIPT_REQUIRED_OUT_COLS, <<>>)
EmptyCellMetadataDf == Table(CELL_REQUIRED_OUT_COLS, <<>>)


(***************************************************************************)
(* Transcript loaders (cosmx.py, merscope.py, xenium.py: _load_transcripts)*)
(***************************************************************************)
CosmxTxAliases ==
    [x |-> <<"x", "x_global_px", "x_global", "x_position", "globalx", "centerx">>,
     y |-> <<"y", "y_global_px", "y_global", "y_position", "globaly", "centery">>,
     gene |-> <<"gene", "target", "targetname", "target_name", "feature_name">>,
     cell |-> <<"cell_id", "cellid", "cell", "cell_id", "cellid_int">>]
MerscopeTxAliases ==
    [x |-> <<"global_x", "x", "x_um", "xcoord", "x_coord">>,
     y |-> <<"global_y", "y", "y_um", "ycoord", "y_coord">>,
     gene |-> <<"gene", "target", "feature_name", "symbol">>,
     cell |-> <<"entityid", "entity_id", "cell_id", "cellid", "cell">>]
XeniumTxAliases ==
    [x |-> <<"x", "x_location", "x_um", "xcoord", "x_coord">>,
     y |-> <<"y", "y_location", "y_um", "ycoord", "y_coord">>,
     gene |-> <<"gene", "feature_name", "feature", "target", "symbol">>,
     cell |-> <<"cell_id", "cellid", "cell", "cell_id_int">>]

\* missing = [name for name, col in [...] if col is None]
MissingOf(pairs) ==
    LET F[i \in 0..Len(pairs)] ==
            IF i = 0 THEN <<>>
            ELSE IF pairs[i][2] = None THEN Append(F[i - 1], pairs[i][1]) ELSE F[i - 1]
    IN  F[Len(pairs)]

\* MERSCOPE: cell_series.where(~(pd.to_numeric(cell_series) == -1), other=pd.NA),
\* applied to the source cells before any cast
SentinelAfterCast(cell_series) ==
    MapCol(LAMBDA c : IF AsStringDtype(c) = Num(-1) THEN NA ELSE c, cell_series)

SentinelToNA(cell_series) ==
    MapCol(LAMBDA c : IF ToNumeric(c) = Num(-1) THEN NA ELSE c, cell_series)

\* a frame that carries the unused source columns along with the canonical four
TranscriptFrameWithSourceColumns(df, x_col, y_col, gene_col, cell_series) ==
    LET others == SelectSeq(df.cols, LAMBDA c : c \notin {x_col, y_col, gene_col})
    IN  Frame(<<"x", "y", "gene", "cell_id">> \o others,
              <<MapCol(ToNumeric, Column(df, x_col)),
                MapCol(ToNumeric, Column(df, y_col)),
                MapCol(AsPyStr, Column(df, gene_col)),
                MapCol(AsStringDtype, cell_series)>>
              \o [i \in 1..Len(others) |-> Column(df, others[i])])

\* the output frame of a transcript loader: a missing cell column is a
\* broadcast pd.NA, never a missing key
TranscriptFrame(df, x_col, y_col, gene_col, cell_series) ==
    Frame(<<"x", "y", "gene", "cell_id">>,
          <<MapCol(ToNumeric, Column(df, x_col)),
            MapCol(ToNumeric, Column(df, y_col)),
            MapCol(AsPyStr, Column(df, gene_col)),
            MapCol(AsStringDtype, cell_series)>>)

\* the body shared by the three _load_transcripts
LoadTranscriptsWith(aliases, sentinel, raw) ==
    LET df == StandardizeColumns(raw)
        colmap == LowerMapColumns(df)
        x_col == FirstPresent(colmap, aliases.x)
        y_col == FirstPresent(colmap, aliases.y)
        gene_col == FirstPresent(colmap, aliases.gene)
        cell_col == FirstPresent(colmap, aliases.cell)
        missing == MissingOf(<< <<"x", x_col>>, <<"y", y_col>>, <<"gene", gene_col>> >>)
        cell_series ==
            IF cell_col = None THEN Broadcast(df, NA)
            ELSE IF sentinel THEN SentinelToNA(Column(df, cell_col))
            ELSE Column(df, cell_col)
    IN  IF missing # <<>>
        THEN LoadError("missing_columns", missing, df.cols)
        ELSE Loaded(TranscriptFrame(df, x_col, y_col, gene_col, cell_series))

CosmxLoadTranscripts(raw) == LoadTranscriptsWith(CosmxTxAliases, FALSE, raw)
MerscopeLoadTranscripts(raw) == LoadTranscriptsWith(MerscopeTxAliases, TRUE, raw)
XeniumLoadTranscripts(raw) == LoadTranscriptsWith(XeniumTxAliases, FALSE, raw)

(***************************************************************************)
(* Cell metadata loaders (_load_cell_metadata)                             *)
(***************************************************************************)
CosmxCellAliases ==
    [cell |-> <<"cell_id", "cellid", "cell", "cell_id_int">>,
     x |-> <<"x", "centerx", "centroid_x", "centroidx", "x_center">>,
     y |-> <<"y", "centery", "centroid_y", "centroidy", "y_center">>,
     type |-> <<"cell_type", "celltype", "cell_class", "classification", "cluster",
                "annotation", "celltype_label">>]
MerscopeCellAliases ==
    [cell |-> <<"entityid", "entity_id", "cell_id", "cellid", "cell", "barcode">>,
     x |-> <<"center_x", "x", "x_centroid", "centroid_x", "centerx">>,
     y |-> <<"center_y", "y", "y_centroid", "centroid_y", "centery">>,
     type |-> <<"cell_type", "celltype", "annotation", "cluster", "label", "cell_class">>]
XeniumCellAliases ==
    [cell |-> <<"cell_id", "cellid", "cell", "barcode">>,
     x |-> <<"x", "x_centroid", "centroid_x", "centerx">>,
     y |-> <<"y", "y_centroid", "centroid_y", "centery">>,
     type |-> <<"cell_type", "celltype", "annotation", "cluster", "graphclust", "kmeans",
                "label">>]

\* df[col] if col is not None else pd.NA
ColumnOrNA(df, col) == IF col = None THEN Broadcast(df, NA) ELSE Column(df, col)

CellFrame(df, cell_col, x_col, y_col, type_col) ==
    Frame(<<"cell_id", "x", "y", "cell_type">>,
          <<MapCol(AsStringDtype, Column(df, cell_col)),
            MapCol(ToNumeric, ColumnOrNA(df, x_col)),
            MapCol(ToNumeric, ColumnOrNA(df, y_col)),
            MapCol(AsStringDtype, ColumnOrNA(df, type_col))>>)

\* the body shared by the three _load_cell_metadata
LoadCellMetadataWith(aliases, raw) ==
    LET df == StandardizeColumns(raw)
        colmap == LowerMapColumns(df)
        cell_col == FirstPresent(colmap, aliases.cell)
        x_col == FirstPresent(colmap, aliases.x)
        y_col == FirstPresent(colmap, aliases.y)
        type_col == FirstPresent(colmap, aliases.type)
    IN  IF cell_col = None
        THEN LoadError("missing_columns", <<"cell_id">>, df.cols)
        ELSE Loaded(CellFrame(df, cell_col, x_col, y_col, type_col))

CosmxLoadCellMetadata(raw) == LoadCellMetadataWith(CosmxCellAliases, raw)
MerscopeLoadCellMetadata(raw) == LoadCellMetadataWith(MerscopeCellAliases, raw)
XeniumLoadCellMetadata(raw) == LoadCellMetadataWith(XeniumCellAliases, raw)


(***************************************************************************)
(* Expression matrices                                                     *)
(*                                                                         *)
(* A matrix is [index_name, index, columns, data]: the name of the row     *)
(* index (None when unnamed), the row labels, the column labels and the    *)
(* rows of cells.                                                          *)
(***************************************************************************)
Matrix(index_name, index, columns, data) ==
    [index_name |-> index_name, index |-> index, columns |-> columns, data |-> data]
\* pd.DataFrame()
EmptyMatrix == Matrix(None, <<>>, <<>>, <<>>)

\* the text of an error message and the numbers it states, in their order
Message(text, numbers) == [text |-> text, numbers |-> numbers]
NoMessage == Message("", <<>>)

LoadedAs(m, layout) ==
    [ok |-> TRUE, m |-> m, err |-> "", layout |-> layout, msg |-> NoMessage]
MatrixError(kind) ==
    [ok |-> FALSE, m |-> EmptyMatrix, err |-> kind, layout |-> "none", msg |-> NoMessage]
\* a ValueError whose message is of interest
MatrixErrorSaying(kind, msg) == [MatrixError(kind) EXCEPT !.msg = msg]

RECURSIVE SortedStrings(_)
\* sorted labels (the group keys of pivot_table come out sorted)
SortedStrings(S) ==
    IF S = {} THEN <<>>
    ELSE LET m == CHOOSE a \in S : \A b \in S \ {a} : StrLess(a, b)
         IN  <<m>> \o SortedStrings(S \ {m})

RECURSIVE SumCounts(_, _, _, _)
\* aggfunc="sum" over the rows of one (cell_id, gene) group; a missing count adds 0
SumCounts(long, c, g, i) ==
    IF i > Len(long) THEN 0
    ELSE (IF long[i][1] = Str(c) /\ long[i][2] = Str(g) /\ long[i][3].k = "num"
          THEN long[i][3].v ELSE 0)
         + SumCounts(long, c, g, i + 1)

RECURSIVE LastCount(_, _, _, _)
LastCount(long, c, g, i) ==
    IF i = 0 THEN 0
    ELSE IF long[i][1] = Str(c) /\ long[i][2] = Str(g) /\ long[i][3].k = "num"
    THEN long[i][3].v
    ELSE LastCount(long, c, g, i - 1)

\* one cell of the pivot: the aggregate of its group, fill_value=0 without a group
PivotCellOverwrite(long, c, g) == Num(LastCount(long, c, g, Len(long)))

PivotCell(long, c, g) == Num(SumCounts(long, c, g, 1))

\* long.pivot_table(index="cell_id", columns="gene", values="count",
\*                  aggfunc="sum", fill_value=0)
\* groupby drops the rows with a missing key; the labels are the sorted keys
PivotTable(long) ==
    LET kept == {i \in 1..Len(long) : ~IsNA(long[i][1]) /\ ~IsNA(long[i][2])}
        cells == SortedStrings({long[i][1].v : i \in kept})
        genes == SortedStrings({long[i][2].v : i \in kept})
    IN  Matrix("cell_id", [r \in 1..Len(cells) |-> Str(cells[r])], genes,
               [r \in 1..Len(cells) |->
                   [j \in 1..Len(genes) |-> PivotCell(long, cells[r], genes[j])]])

\* the long-format branch: df[[cell_col, gene_col, count_col]], casts, pivot
PivotLong(df, cell_col, gene_col, count_col) ==
    LET cc == MapCol(AsStringDtype, Column(df, cell_col))
        gc == MapCol(AsStringDtype, Column(df, gene_col))
        nc == MapCol(ToNumeric, Column(df, count_col))
    IN  PivotTable([r \in 1..Len(df.rows) |-> <<cc[r], gc[r], nc[r]>>])

\* df.set_index(name) followed by the casts of the wide branches: the index keeps
\* the name of the source column
SetIndex(df, name) ==
    LET k == ColIndex(df, name)
        rest == [j \in 1..(Len(df.cols) - 1) |-> IF j < k THEN j ELSE j + 1]
    IN  Matrix(name,
               MapCol(AsStringDtype, Column(df, name)),
               [j \in 1..Len(rest) |-> df.cols[rest[j]]],
               [r \in 1..Len(df.rows) |->
                   [j \in 1..Len(rest) |-> ToNumeric(df.rows[r][rest[j]])]])

\* df.set_index(df.columns[0]).T with index.name = "cell_id": the header cells
\* become the row labels and the first column's cells the column labels
SetIndexTransposed(df) ==
    LET m == SetIndex(df, df.cols[1])
    IN  Matrix("cell_id",
               [r \in 1..Len(m.columns) |-> Str(m.columns[r])],
               [j \in 1..Len(m.index) |-> IF IsNA(m.index[j]) THEN "nan" ELSE m.index[j].v],
               [r \in 1..Len(m.columns) |-> [j \in 1..Len(m.index) |-> m.data[j][r]]])

CosmxExprAliases ==
    [cell |-> <<"cell_id", "cellid", "cell">>,
     gene |-> <<"gene", "target", "feature", "feature_name">>,
     count |-> <<"count", "counts", "umi", "umis", "value", "expr">>,
     first_cell |-> {"cell_id", "cellid", "cell", "cellid_int"},
     first_gene |-> {"gene", "target", "feature", "feature_name"}]
XeniumExprAliases ==
    [cell |-> <<"cell_id", "cellid", "cell", "barcode">>,
     gene |-> <<"gene", "feature", "feature_name", "symbol">>,
     count |-> <<"count", "counts", "umi", "umis", "value", "expr">>,
     first_cell |-> {"cell_id", "cellid", "cell", "barcode"},
     first_gene |-> {"gene", "feature", "feature_name", "symbol"}]
VisiumHdExprAliases ==
    [cell |-> <<"cell_id", "barcode", "barcodes", "spot", "spot_id">>,
     gene |-> <<"gene", "feature", "feature_name", "symbol">>,
     count |-> <<"count", "counts", "umi", "umis", "value", "expr">>,
     first_cell |-> {"cell_id", "barcode", "barcodes", "spot", "spot_id"},
     first_gene |-> {"gene", "feature", "feature_name", "symbol"}]

\* len(df.columns) <= 6 in the long-format test
LongMaxColumns == 6

\* a loader whose long-format test does not look at the number of columns
LoadExpressionTableAnyWidth(aliases, raw) ==
    LET df == StandardizeColumns(raw)
        colmap == LowerMapColumns(df)
        cell_col == FirstPresent(colmap, aliases.cell)
        gene_col == FirstPresent(colmap, aliases.gene)
        count_col == FirstPresent(colmap, aliases.count)
    IN  IF cell_col # None /\ gene_col # None /\ count_col # None
        THEN LoadedAs(PivotLong(df, cell_col, gene_col, count_col), "long")
        ELSE IF Len(df.cols) < 2
        THEN MatrixError("too_few_columns")
        ELSE LET first == StrLower(StrStrip(df.cols[1]))
             IN  IF first \in aliases.first_cell
                 THEN LoadedAs(SetIndex(df, df.cols[1]), "wide")
                 ELSE IF first \in aliases.first_gene
                 THEN LoadedAs(SetIndexTransposed(df), "transposed")
                 ELSE LoadedAs(SetIndex(df, df.cols[1]), "ambiguous")

\* the body shared by cosmx._load_expression_matrix and the
\* _load_expression_table_csv of xenium.py and visium_hd.py
LoadExpressionTableWith(aliases, raw) ==
    LET df == StandardizeColumns(raw)
        colmap == LowerMapColumns(df)
        cell_col == FirstPresent(colmap, aliases.cell)
        gene_col == FirstPresent(colmap, aliases.gene)
        count_col == FirstPresent(colmap, aliases.count)
    IN  IF /\ cell_col # None /\ gene_col # None /\ count_col # None
           /\ Len(df.cols) <= LongMaxColumns
        THEN LoadedAs(PivotLong(df, cell_col, gene_col, count_col), "long")
        ELSE IF Len(df.cols) < 2
        THEN MatrixError("too_few_columns")
        ELSE LET first == StrLower(StrStrip(df.cols[1]))
             IN  IF first \in aliases.first_cell
                 THEN LoadedAs(SetIndex(df, df.cols[1]), "wide")
                 ELSE IF first \in aliases.first_gene
                 THEN LoadedAs(SetIndexTransposed(df), "transposed")
                 ELSE LoadedAs(SetIndex(df, df.cols[1]), "ambiguous")

CosmxLoadExpressionMatrix(raw) == LoadExpressionTableWith(CosmxExprAliases, raw)
XeniumLoadExpressionTableCsv(raw) == LoadExpressionTableWith(XeniumExprAliases, raw)
VisiumHdLoadExpressionTableCsv(raw) == LoadExpressionTableWith(VisiumHdExprAliases, raw)

\* merscope._load_expression_matrix: always wide, a fixed index column
MerscopeLoadExpressionMatrix(raw) ==
    LET df == StandardizeColumns(raw)
    IN  IF Len(df.cols) < 2
        THEN MatrixError("too_few_columns")
        ELSE LET colmap == LowerMapColumns(df)
                 p == FirstPresent(colmap,
                          <<"entityid", "entity_id", "cell_id", "cellid", "cell">>)
                 idx_col == IF p # None THEN p ELSE df.cols[1]
                 m == SetIndex(df, idx_col)
             IN  LoadedAs(Matrix("cell_id", m.index, m.columns, m.data), "wide")


(***************************************************************************)
(* Spot positions (visium.py, visium_hd.py) and the tabular parser         *)
(***************************************************************************)
VisiumPositionNames ==
    <<"barcode", "in_tissue", "array_row", "array_col",
      "pxl_row_in_fullres", "pxl_col_in_fullres">>

\* col_lut = {c.lower(): c for c in df.columns}: a later column with the same
\* lower-cased name replaces an earlier one
VisiumColLut(df) ==
    LET low(i) == StrLower(df.cols[i])
    IN  [l \in {low(i) : i \in 1..Len(df.cols)} |->
            df.cols[CHOOSE i \in 1..Len(df.cols) :
                        /\ low(i) = l
                        /\ \A j \in (i + 1)..Len(df.cols) : low(j) # l]]

LutGet(lut, key) == IF key \in DOMAIN lut THEN lut[key] ELSE None

\* visium._load_tissue_positions: a six-column file whose first header cell is
\* not "barcode" is read again as headerless
VisiumLoadTissuePositions(raw) ==
    LET headerless == Len(raw.cols) = 6 /\ StrLower(StrStrip(raw.cols[1])) # "barcode"
        df0 == IF headerless
               THEN Table(VisiumPositionNames,
                          <<[j \in 1..6 |-> Str(raw.cols[j])]>> \o raw.rows)
               ELSE raw
        df == StandardizeColumns(df0)
        col_lut == VisiumColLut(df)
        barcode_col == LutGet(col_lut, "barcode")
        px_row_col == LutGet(col_lut, "pxl_row_in_fullres")
        px_col_col == LutGet(col_lut, "pxl_col_in_fullres")
        missing == MissingOf(<< <<"barcode", barcode_col>>,
                                <<"pxl_row_in_fullres", px_row_col>>,
                                <<"pxl_col_in_fullres", px_col_col>> >>)
    IN  IF missing # <<>>
        THEN LoadError("missing_columns", missing, <<>>)
        ELSE Loaded(Frame(<<"cell_id", "x", "y", "cell_type">>,
                          <<MapCol(AsPyStr, Column(df, barcode_col)),
                            MapCol(ToNumeric, Column(df, px_col_col)),
                            MapCol(ToNumeric, Column(df, px_row_col)),
                            Broadcast(df, NA)>>))

\* a or b on two optional column names
OrElse(a, b) == IF a # None THEN a ELSE b

RECURSIVE SelectRows(_, _)
\* out.loc[mask].reset_index(drop=True): the kept rows in their order
SelectRows(rows, keep) ==
    IF rows = <<>> THEN <<>>
    ELSE (IF keep[1] THEN <<rows[1]>> ELSE <<>>) \o SelectRows(Tail(rows), Tail(keep))

\* the in_tissue filter of _load_positions_as_cell_metadata:
\* out.loc[it.fillna(0).astype(int) == 1] when some value of the column parses
InTissueFilter(frame, df, in_tissue_col) ==
    IF in_tissue_col = None THEN frame
    ELSE LET it == MapCol(ToNumeric, Column(df, in_tissue_col))
         IN  IF \A r \in 1..Len(it) : IsNA(it[r]) THEN frame
             ELSE Table(frame.cols,
                        SelectRows(frame.rows,
                                   [r \in 1..Len(it) |->
                                       AsInt(IF IsNA(it[r]) THEN Num(0) ELSE it[r]) = 1]))

\* visium_hd._load_positions_as_cell_metadata
VisiumHdLoadPositions(raw) ==
    LET df == StandardizeColumns(raw)
        colmap == LowerMapColumns(df)
        barcode_col == FirstPresent(colmap, <<"barcode", "barcodes", "spot", "spot_id", "cell_id">>)
        in_tissue_col == FirstPresent(colmap, <<"in_tissue", "tissue">>)
        px_row_col == FirstPresent(colmap, <<"pxl_row_in_fullres", "pixel_row", "pxl_row", "row_px">>)
        px_col_col == FirstPresent(colmap, <<"pxl_col_in_fullres", "pixel_col", "pxl_col", "col_px">>)
        array_row_col == FirstPresent(colmap, <<"array_row", "row", "grid_row">>)
        array_col_col == FirstPresent(colmap, <<"array_col", "col", "grid_col">>)
        x_src == OrElse(px_col_col, array_col_col)
        y_src == OrElse(px_row_col, array_row_col)
    IN  IF barcode_col = None
        THEN LoadError("missing_columns", <<"barcode">>, df.cols)
        ELSE IF x_src = None \/ y_src = None
        THEN LoadError("missing_columns", <<"coordinates">>, df.cols)
        ELSE Loaded(InTissueFilter(
                 Frame(<<"cell_id", "x", "y", "cell_type">>,
                       <<MapCol(AsStringDtype, Column(df, barcode_col)),
                         MapCol(ToNumeric, Column(df, x_src)),
                         MapCol(ToNumeric, Column(df, y_src)),
                         MapCol(AsStringDtype, Broadcast(df, NA))>>),
                 df, in_tissue_col))

\* df[cols]: the named columns in the given order
SelectColumns(df, cols) ==
    Table(cols, [r \in 1..Len(df.rows) |->
                    [j \in 1..Len(cols) |-> df.rows[r][ColIndex(df, cols[j])]]])

RECURSIVE FilterSeq(_, _)
FilterSeq(seq, S) ==
    IF seq = <<>> THEN <<>>
    ELSE (IF Head(seq) \in S THEN <<>> ELSE <<Head(seq)>>) \o FilterSeq(Tail(seq), S)

FillZero(c) == IF IsNA(c) THEN Num(0) ELSE c

\* universal._parse_tabular_cells, from the table read off the file on
TabularLoad(raw) ==
    LET df == StandardizeColumns(raw)
        colmap == LowerMapColumns(df)
        cell_col == FirstPresent(colmap, <<"cell_id", "cellid", "cell", "barcode", "id">>)
        x_col == FirstPresent(colmap, <<"x", "x_coord", "xcoord", "x_centroid", "centerx", "centroid_x">>)
        y_col == FirstPresent(colmap, <<"y", "y_coord", "ycoord", "y_centroid", "centery", "centroid_y">>)
        type_col == FirstPresent(colmap, <<"cell_type", "celltype", "type", "annotation", "cluster", "label">>)
        missing == MissingOf(<< <<"cell_id", cell_col>>, <<"x", x_col>>, <<"y", y_col>> >>)
    IN  IF missing # <<>>
        THEN [ok |-> FALSE, cells |-> EmptyCellMetadataDf, expr |-> EmptyMatrix,
              err |-> "missing_columns", missing |-> missing, found |-> df.cols]
        ELSE LET cell_metadata ==
                     Frame(<<"cell_id", "x", "y", "cell_type">>,
                           <<MapCol(AsStringDtype, Column(df, cell_col)),
                             MapCol(ToNumeric, Column(df, x_col)),
                             MapCol(ToNumeric, Column(df, y_col)),
                             MapCol(AsStringDtype, ColumnOrNA(df, type_col))>>)
                 gene_cols == FilterSeq(df.cols, {cell_col, x_col, y_col, type_col})
                 expr == Matrix("cell_id",
                                Column(cell_metadata, "cell_id"),
                                gene_cols,
                                [r \in 1..Len(df.rows) |->
                                    [j \in 1..Len(gene_cols) |->
                                        FillZero(ToNumeric(df.rows[r][ColIndex(df, gene_cols[j])]))]])
             IN  [ok |-> TRUE, cells |-> SelectColumns(cell_metadata, CELL_REQUIRED_OUT_COLS),
                  expr |-> expr, err |-> "", missing |-> <<>>, found |-> <<>>]

(***************************************************************************)
(* Paths: a path is its sequence of components and the node it names       *)
(***************************************************************************)
Path(parts, node) == [parts |-> parts, node |-> node]
NoPath == Path(<<>>, File("", NoContent))
Found(p) == p.parts # <<>>

\* p / name, for a name that exists in p
Join(p, name) == Path(Append(p.parts, name), Child(p.node, name))
Exists(p, name) == HasChild(p.node, name)
ExistsDir(p, name) == HasChild(p.node, name) /\ IsDir(Child(p.node, name))

RECURSIVE PathStr(_)
\* str(path)
PathStr(parts) ==
    IF parts = <<>> THEN ""
    ELSE IF Len(parts) = 1 THEN parts[1]
    ELSE parts[1] \o "/" \o PathStr(Tail(parts))

\* str(p) if p else None
StrOrNone(p) == IF Found(p) THEN PathStr(p.parts) ELSE None

\* p.iterdir(), in the order the operating system lists the entries
IterDir(p) == [i \in 1..Len(p.node.listing) |-> Join(p, p.node.listing[i])]

\* p.glob("*" + suffix)
Glob(p, suffix) == SelectSeq(IterDir(p), LAMBDA q : EndsWith(q.node.name, suffix))

RECURSIVE PartsLess(_, _)
\* the order of pathlib paths: component by component
PartsLess(a, b) ==
    IF a = <<>> THEN b # <<>>
    ELSE IF b = <<>> THEN FALSE
    ELSE IF a[1] = b[1] THEN PartsLess(Tail(a), Tail(b))
    ELSE StrLess(a[1], b[1])

RECURSIVE SortedPathSet(_)
SortedPathSet(S) ==
    IF S = {} THEN <<>>
    ELSE LET m == CHOOSE c \in S : \A d \in S \ {c} : PartsLess(c.parts, d.parts)
         IN  <<m>> \o SortedPathSet(S \ {m})

Range(seq) == {seq[i] : i \in 1..Len(seq)}

\* sorted(paths)
SortedPaths(seq) == SortedPathSet(Range(seq))

RECURSIVE Dedup(_, _)
\* the paths of seq not seen before, in order
Dedup(seq, seen) ==
    IF seq = <<>> THEN <<>>
    ELSE IF Head(seq).parts \in seen THEN Dedup(Tail(seq), seen)
    ELSE <<Head(seq)>> \o Dedup(Tail(seq), seen \cup {Head(seq).parts})

RECURSIVE FirstExisting(_, _)
\* the first of p / name, over names, that exists
FirstExisting(p, names) ==
    IF names = <<>> THEN NoPath
    ELSE IF Exists(p, Head(names)) THEN Join(p, Head(names))
    ELSE FirstExisting(p, Tail(names))

\* lowered = {q.name.lower(): q for q in pool}; lowered.get(lname): the last
\* path of the pool with that lower-cased name
LoweredGet(pool, lname) ==
    LET hits == {i \in 1..Len(pool) : StrLower(pool[i].node.name) = lname}
    IN  IF hits = {} THEN NoPath
        ELSE pool[CHOOSE i \in hits : \A j \in hits : j <= i]

RECURSIVE FirstLowered(_, _)
FirstLowered(pool, names) ==
    IF names = <<>> THEN NoPath
    ELSE LET q == LoweredGet(pool, StrLower(Head(names)))
         IN  IF Found(q) THEN q ELSE FirstLowered(pool, Tail(names))

RECURSIVE FirstContaining(_, _)
\* the first path of the pool whose lower-cased name contains one of the fragments
FirstContaining(pool, contains_any) ==
    IF pool = <<>> THEN NoPath
    ELSE IF \E c \in Range(contains_any) : Contains(StrLower(Head(pool).node.name), StrLower(c))
    THEN Head(pool)
    ELSE FirstContaining(Tail(pool), contains_any)

\* the pick / pick_file closures of cosmx._discover_files and xenium._discover_files
PickFile(base, pool, preferred_names, contains_any) ==
    LET exact == FirstExisting(base, preferred_names)
        lowered == FirstLowered(pool, preferred_names)
    IN  IF Found(exact) THEN exact
        ELSE IF Found(lowered) THEN lowered
        ELSE FirstContaining(pool, contains_any)

(***************************************************************************)
(* Reading files                                                           *)
(***************************************************************************)
\* the optional packages an installation may or may not have
Environments == [scipy : BOOLEAN, h5py : BOOLEAN, pyarrow : BOOLEAN]

\* before any call nothing has been imported
NothingImported == [scipy |-> FALSE, h5py |-> FALSE, pyarrow |-> FALSE]

TableContent(cols, rows) == [type |-> "table", cols |-> cols, rows |-> rows]
JsonContent(valid, value) == [type |-> "json", valid |-> valid, value |-> value]
LinesContent(rows) == [type |-> "lines", lines |-> rows]
MtxContent(shape, entries) == [type |-> "mtx", shape |-> shape, entries |-> entries]
H5Content(shape, features, barcodes, entries) ==
    [type |-> "h5", shape |-> shape, features |-> features, barcodes |-> barcodes,
     entries |-> entries]

ReadFailed == LoadError("read_failed", <<>>, <<>>)

\* pd.read_csv(path): the table stored in the file, or the reader's exception
ReadCsv(p) ==
    IF IsFile(p.node) /\ p.node.content.type = "table"
    THEN Loaded(Table(p.node.content.cols, p.node.content.rows))
    ELSE ReadFailed

\* pd.read_parquet(path) needs a parquet engine
ReadParquet(p, env) == IF env.pyarrow THEN ReadCsv(p) ELSE ReadFailed

\* _read_table of merscope.py and xenium.py, and the reader of the Visium HD
\* positions: parquet by suffix, CSV otherwise
ReadTable(p, env) ==
    IF EndsWith(StrLower(JoinedSuffixes(p.node.name)), ".parquet")
    THEN ReadParquet(p, env)
    ELSE ReadCsv(p)

\* the loader applied to the table read, or the reader's error
Then(read, LoadOp(_)) == IF read.ok THEN LoadOp(read.df) ELSE read

(***************************************************************************)
(* 10x matrices: MEX directories and H5 files                              *)
(***************************************************************************)
\* _MAX_DENSE_ENTRIES of visium.py
MAX_DENSE_ENTRIES == 20000000
\* max_elements of xenium._load_10x_h5
H5MaxElements == 50000000

\* the ValueError of _read_matrix_market_dense above the ceiling: its message
\* states shape=(n_rows,n_cols) and entries=n_rows*n_cols
VisiumTooLarge(shape) ==
    MatrixErrorSaying("too_large",
        Message("Visium: matrix is too large to load densely without scipy. "
                \o "Install 'scipy' for sparse loading or export a smaller panel.",
                <<shape[1], shape[2], shape[1] * shape[2]>>))

\* the ValueError of the dense fallback of xenium._load_10x_h5 above the
\* ceiling: its message states features= and barcodes=
XeniumTooLarge(shape) ==
    MatrixErrorSaying("too_large",
        Message("Xenium: reading cell_feature_matrix.h5 without scipy would require "
                \o "allocating a huge dense matrix. Install the optional dependency "
                \o "'scipy' for sparse loading, or export a smaller matrix.",
                <<shape[1], shape[2]>>))

InBounds(e, shape) == e[1] >= 1 /\ e[2] >= 1 /\ e[1] <= shape[1] /\ e[2] <= shape[2]

\* mat[r, c] = int(v) over the entries in file order: the last entry of a
\* position stays
DenseLast(entries, r, c) ==
    LET hits == {i \in 1..Len(entries) : entries[i][1] = r /\ entries[i][2] = c}
    IN  IF hits = {} THEN 0 ELSE entries[CHOOSE i \in hits : \A j \in hits : j <= i][3]

RECURSIVE DenseSum(_, _, _)
\* a scipy coordinate matrix converted to CSC: repeated positions add up
DenseSum(entries, r, c) ==
    IF entries = <<>> THEN 0
    ELSE (IF Head(entries)[1] = r /\ Head(entries)[2] = c THEN Head(entries)[3] ELSE 0)
         + DenseSum(Tail(entries), r, c)

\* the cells x genes frame of a features x barcodes matrix: mat.T with the
\* barcodes as index and the features as columns
CellsByGenes(Dense(_, _, _), entries, features, barcodes) ==
    Matrix("cell_id",
           [b \in 1..Len(barcodes) |-> Str(barcodes[b])],
           features,
           [b \in 1..Len(barcodes) |->
               [f \in 1..Len(features) |-> Num(Dense(entries, f, b))]])

IsLines(p) == IsFile(p.node) /\ p.node.content.type = "lines"
IsMtx(p) == IsFile(p.node) /\ p.node.content.type = "mtx"

\* visium._first_existing: the exact name, else a child with the same
\* lower-cased name
RECURSIVE VisiumFirstExisting(_, _)
VisiumFirstExisting(base, names) ==
    IF names = <<>> THEN NoPath
    ELSE IF Exists(base, Head(names)) THEN Join(base, Head(names))
    ELSE LET q == LoweredGet(IterDir(base), StrLower(Head(names)))
         IN  IF Found(q) THEN q ELSE VisiumFirstExisting(base, Tail(names))

\* visium._read_tsv_first_col
FirstCol(rows) == [i \in 1..Len(rows) |-> rows[i][1]]
\* visium._read_tsv_first_or_second_col
FirstOrSecondCol(rows) ==
    [i \in 1..Len(rows) |->
        IF Len(rows[i]) >= 2 /\ StrStrip(rows[i][2]) # "" THEN rows[i][2] ELSE rows[i][1]]

MatrixNames == <<"matrix.mtx.gz", "matrix.mtx">>
FeatureNames == <<"features.tsv.gz", "features.tsv", "genes.tsv.gz", "genes.tsv">>
BarcodeNames == <<"barcodes.tsv.gz", "barcodes.tsv">>

\* visium._load_mex_dir with _read_matrix_market_dense
VisiumLoadMexDir(path) ==
    LET matrix_path == VisiumFirstExisting(path, MatrixNames)
        features_path == VisiumFirstExisting(path, FeatureNames)
        barcodes_path == VisiumFirstExisting(path, BarcodeNames)
    IN  IF ~Found(matrix_path) \/ ~Found(features_path) \/ ~Found(barcodes_path)
        THEN MatrixError("mex_missing_files")
        ELSE IF ~IsLines(features_path) \/ ~IsLines(barcodes_path)
        THEN MatrixError("read_failed")
        ELSE IF ~IsMtx(matrix_path)
        THEN MatrixError("not_matrix_market")
        ELSE LET features == FirstOrSecondCol(features_path.node.content.lines)
                 barcodes == FirstCol(barcodes_path.node.content.lines)
                 shape == matrix_path.node.content.shape
                 entries == matrix_path.node.content.entries
             IN  IF shape[1] * shape[2] > MAX_DENSE_ENTRIES
                 THEN VisiumTooLarge(shape)
                 ELSE IF \E i \in 1..Len(entries) : ~InBounds(entries[i], shape)
                 THEN MatrixError("entry_out_of_bounds")
                 ELSE IF shape # <<Len(features), Len(barcodes)>>
                 THEN MatrixError("shape_mismatch")
                 ELSE LoadedAs(CellsByGenes(DenseLast, entries, features, barcodes), "mex")

\* visium._load_expression_matrix
VisiumLoadExpressionMatrix(path) ==
    IF IsDir(path.node) THEN VisiumLoadMexDir(path)
    ELSE IF EndsWith(StrLower(JoinedSuffixes(path.node.name)), ".h5")
    THEN MatrixError("h5_unsupported")
    ELSE MatrixError("unsupported_path")

\* _read_tsv_first_col(path, prefer_second_col=True) of xenium.py and
\* visium_hd.py: the choice of the column is made on the first row
PreferSecondCol(rows) ==
    IF rows = <<>> THEN <<>>
    ELSE IF Len(rows[1]) >= 2 THEN [i \in 1..Len(rows) |-> rows[i][2]]
    ELSE FirstCol(rows)

\* a frame built from whatever labels were read, without comparing their number
\* with the matrix's shape
FromSpMatrixUnchecked(shape, entries, features, barcodes) ==
    LoadedAs(CellsByGenes(DenseSum, entries, features, barcodes), "sparse")

\* pd.DataFrame.sparse.from_spmatrix(mat.T, index, columns): pandas refuses
\* labels whose number differs from the matrix's
FromSpMatrix(shape, entries, features, barcodes) ==
    IF shape # <<Len(features), Len(barcodes)>>
    THEN MatrixError("length_mismatch")
    ELSE LoadedAs(CellsByGenes(DenseSum, entries, features, barcodes), "sparse")

\* _load_mex_dir of xenium.py and visium_hd.py
ScipyLoadMexDir(path, env) ==
    IF ~env.scipy THEN MatrixError("needs_scipy")
    ELSE LET matrix_path == FirstExisting(path, MatrixNames)
             barcodes_path == FirstExisting(path, BarcodeNames)
             features_path == FirstExisting(path, FeatureNames)
         IN  IF ~Found(matrix_path) \/ ~Found(barcodes_path) \/ ~Found(features_path)
             THEN MatrixError("mex_missing_files")
             ELSE IF ~IsMtx(matrix_path)
                     \/ \E i \in 1..Len(matrix_path.node.content.entries) :
                            ~InBounds(matrix_path.node.content.entries[i],
                                      matrix_path.node.content.shape)
             THEN MatrixError("read_failed")
             ELSE IF ~IsLines(features_path) \/ ~IsLines(barcodes_path)
             THEN MatrixError("read_failed")
             ELSE LET frows == features_path.node.content.lines
                  IN  IF frows # <<>> /\ Len(frows[1]) >= 2
                         /\ \E i \in 1..Len(frows) : Len(frows[i]) < 2
                      THEN MatrixError("index_error")
                      ELSE FromSpMatrix(matrix_path.node.content.shape,
                                        matrix_path.node.content.entries,
                                        PreferSecondCol(frows),
                                        FirstCol(barcodes_path.node.content.lines))

IsH5(p) == IsFile(p.node) /\ p.node.content.type = "h5"

\* the dense fallback of xenium._load_10x_h5: a frame of barcodes x features
\* filled from the matrix, which pandas refuses when the labels do not fit
DenseFrame(shape, entries, features, barcodes) ==
    IF shape # <<Len(features), Len(barcodes)>>
    THEN MatrixError("shape_mismatch")
    ELSE LoadedAs(CellsByGenes(DenseLast, entries, features, barcodes), "dense")

\* xenium._load_10x_h5
XeniumLoad10xH5(path, env) ==
    IF ~env.h5py THEN MatrixError("needs_h5py")
    ELSE IF ~IsH5(path) THEN MatrixError("read_failed")
    ELSE LET c == path.node.content
         IN  IF env.scipy
             THEN FromSpMatrix(c.shape, c.entries, c.features, c.barcodes)
             ELSE IF c.shape[1] * c.shape[2] > H5MaxElements
             THEN XeniumTooLarge(c.shape)
             ELSE DenseFrame(c.shape, c.entries, c.features, c.barcodes)

\* visium_hd._load_10x_h5
VisiumHdLoad10xH5(path, env) ==
    IF ~env.h5py THEN MatrixError("needs_h5py")
    ELSE IF ~env.scipy THEN MatrixError("needs_scipy")
    ELSE IF ~IsH5(path) THEN MatrixError("read_failed")
    ELSE LET c == path.node.content
         IN  FromSpMatrix(c.shape, c.entries, c.features, c.barcodes)

\* the expression table loaders applied to the file's table
ThenMatrix(read, LoadOp(_)) == IF read.ok THEN LoadOp(read.df) ELSE MatrixError("read_failed")

\* xenium._load_expression_matrix
XeniumLoadExpressionMatrix(path, env) ==
    IF IsDir(path.node) THEN ScipyLoadMexDir(path, env)
    ELSE IF EndsWith(StrLower(JoinedSuffixes(path.node.name)), ".h5")
    THEN XeniumLoad10xH5(path, env)
    ELSE ThenMatrix(ReadCsv(path), XeniumLoadExpressionTableCsv)

\* visium_hd._load_expression_matrix
VisiumHdLoadExpressionMatrix(path, env) ==
    IF IsDir(path.node) THEN ScipyLoadMexDir(path, env)
    ELSE IF EndsWith(StrLower(JoinedSuffixes(path.node.name)), ".h5")
    THEN VisiumHdLoad10xH5(path, env)
    ELSE ThenMatrix(ReadCsv(path), VisiumHdLoadExpressionTableCsv)

(***************************************************************************)
(* File discovery (_discover_files of each adapter)                        *)
(***************************************************************************)
Candidates(transcript, cell_metadata, expression, json_files) ==
    [transcript |-> transcript, cell_metadata |-> cell_metadata,
     expression |-> expression, json_files |-> json_files]

\* cosmx._discover_files
CosmxDiscoverFiles(base) ==
    LET csvs == Glob(base, ".csv") \o Glob(base, ".CSV")
    IN  Candidates(
            PickFile(base, csvs, <<"tx_file.csv", "transcripts.csv", "tx.csv">>,
                     <<"tx_", "transcript">>),
            PickFile(base, csvs, <<"cell_metadata.csv", "cells.csv", "cellmetadata.csv">>,
                     <<"cell_metadata", "cellmeta", "cells">>),
            PickFile(base, csvs, <<"exprMat_file.csv", "expression.csv", "exprmat.csv">>,
                     <<"expr", "matrix">>),
            SortedPaths(Glob(base, ".json") \o Glob(base, ".JSON")))

RECURSIVE FirstH5Matrix(_)
\* the first *.h5 whose name looks like a feature matrix
FirstH5Matrix(h5s) ==
    IF h5s = <<>> THEN NoPath
    ELSE IF Contains(StrLower(Head(h5s).node.name), "feature_matrix")
            \/ Contains(StrLower(Head(h5s).node.name), "cell_feature")
    THEN Head(h5s)
    ELSE FirstH5Matrix(Tail(h5s))

\* xenium._discover_files
XeniumDiscoverFiles(base) ==
    LET parquet == Glob(base, ".parquet") \o Glob(base, ".PARQUET")
        csvs == Glob(base, ".csv") \o Glob(base, ".CSV")
                \o Glob(base, ".csv.gz") \o Glob(base, ".CSV.GZ")
        h5_exact == FirstExisting(base, <<"cell_feature_matrix.h5", "cell_feature_matrix.H5">>)
        expr == IF Found(h5_exact) THEN h5_exact
                ELSE IF ExistsDir(base, "cell_feature_matrix")
                THEN Join(base, "cell_feature_matrix")
                ELSE FirstH5Matrix(Glob(base, ".h5") \o Glob(base, ".H5"))
    IN  Candidates(
            PickFile(base, parquet \o csvs,
                     <<"transcripts.parquet", "transcripts.csv.gz", "transcripts.csv">>,
                     <<"transcripts">>),
            PickFile(base, parquet \o csvs,
                     <<"cells.parquet", "cells.csv.gz", "cells.csv">>,
                     <<"cells", "cell_summary">>),
            expr,
            SortedPaths(Glob(base, ".json") \o Glob(base, ".JSON")
                        \o Glob(base, ".xenium") \o Glob(base, ".XENIUM")))

\* add_root: append a directory that is not yet a search root
AddRoot(search_roots, p) ==
    IF IsDir(p.node) /\ p.parts \notin {search_roots[i].parts : i \in 1..Len(search_roots)}
    THEN Append(search_roots, p)
    ELSE search_roots

RECURSIVE MerscopeAddChildren(_, _)
\* the loop over sorted(base.iterdir()) of merscope._discover_files
MerscopeAddChildren(search_roots, children) ==
    IF children = <<>> THEN search_roots
    ELSE LET child == Head(children)
         IN  IF ~IsDir(child.node) THEN MerscopeAddChildren(search_roots, Tail(children))
             ELSE MerscopeAddChildren(
                      AddRoot(IF ExistsDir(child, "analysis_outputs")
                              THEN AddRoot(search_roots, Join(child, "analysis_outputs"))
                              ELSE search_roots,
                              child),
                      Tail(children))

\* search_roots of merscope._discover_files
MerscopeSearchRoots(base) ==
    MerscopeAddChildren(
        IF ExistsDir(base, "analysis_outputs")
        THEN <<Join(base, "analysis_outputs"), base>>
        ELSE <<base>>,
        SortedPaths(IterDir(base)))

MerscopeTablePatterns == <<".csv", ".CSV", ".csv.gz", ".CSV.GZ", ".parquet", ".PARQUET">>

RECURSIVE GlobAll(_, _)
\* for pat in patterns: root.glob(pat)
GlobAll(root, patterns) ==
    IF patterns = <<>> THEN <<>>
    ELSE Glob(root, Head(patterns)) \o GlobAll(root, Tail(patterns))

RECURSIVE CollectOver(_, _)
CollectOver(search_roots, patterns) ==
    IF search_roots = <<>> THEN <<>>
    ELSE GlobAll(Head(search_roots), patterns) \o CollectOver(Tail(search_roots), patterns)

\* collect(patterns)
Collect(search_roots, patterns) == Dedup(CollectOver(search_roots, patterns), {})

\* p.parent == root
InRoot(p, root) == SubSeq(p.parts, 1, Len(p.parts) - 1) = root.parts

RECURSIVE MerscopePreferredIn(_, _, _)
\* for name in preferred_names: root / name if it exists, else the table of
\* this root with the same lower-cased name
MerscopePreferredIn(root, lowered_pool, names) ==
    IF names = <<>> THEN NoPath
    ELSE IF Exists(root, Head(names)) THEN Join(root, Head(names))
    ELSE LET q == LoweredGet(lowered_pool, StrLower(Head(names)))
         IN  IF Found(q) THEN q ELSE MerscopePreferredIn(root, lowered_pool, Tail(names))

RECURSIVE MerscopePreferred(_, _, _)
MerscopePreferred(search_roots, tables, names) ==
    IF search_roots = <<>> THEN NoPath
    ELSE LET root == Head(search_roots)
             q == MerscopePreferredIn(
                      root, SelectSeq(tables, LAMBDA t : InRoot(t, root)), names)
         IN  IF Found(q) THEN q ELSE MerscopePreferred(Tail(search_roots), tables, names)

\* pick_file of merscope._discover_files
MerscopePickFile(search_roots, tables, preferred_names, contains_any) ==
    LET q == MerscopePreferred(search_roots, tables, preferred_names)
    IN  IF Found(q) THEN q ELSE FirstContaining(tables, contains_any)

RECURSIVE MerscopeJson(_)
MerscopeJson(search_roots) ==
    IF search_roots = <<>> THEN <<>>
    ELSE SortedPaths(Glob(Head(search_roots), ".json"))
         \o SortedPaths(Glob(Head(search_roots), ".JSON"))
         \o MerscopeJson(Tail(search_roots))

\* merscope._discover_files
MerscopeDiscoverFiles(base) ==
    LET search_roots == MerscopeSearchRoots(base)
        tables == Collect(search_roots, MerscopeTablePatterns)
    IN  Candidates(
            MerscopePickFile(search_roots, tables,
                <<"detected_transcripts.csv", "detected_transcripts.parquet",
                  "transcripts.csv", "transcripts.parquet">>,
                <<"detected_transcripts", "transcript">>),
            MerscopePickFile(search_roots, tables,
                <<"cell_metadata.csv", "cell_metadata.parquet", "entity_metadata.csv",
                  "entity_metadata_cell.csv", "cells.csv">>,
                <<"cell_metadata", "entity_metadata", "cells">>),
            MerscopePickFile(search_roots, tables,
                <<"cell_by_gene.csv", "cell_by_gene.parquet", "entity_by_gene.csv",
                  "expression.csv">>,
                <<"cell_by_gene", "entity_by_gene", "by_gene", "expression">>),
            Dedup(MerscopeJson(search_roots), {}))

\* visium._discover_files: no transcript role; the positions are the cell role
VisiumDiscoverFiles(base) ==
    LET has_spatial == ExistsDir(base, "spatial")
        spatial_dir == Join(base, "spatial")
        tissue_positions ==
            IF has_spatial
            THEN FirstExisting(spatial_dir, <<"tissue_positions.csv", "tissue_positions_list.csv">>)
            ELSE NoPath
        expr == FirstExisting(base, <<"filtered_feature_bc_matrix.h5", "filtered_feature_bc_matrix",
                                      "raw_feature_bc_matrix.h5", "raw_feature_bc_matrix">>)
        json_files ==
            (IF has_spatial
             THEN Glob(spatial_dir, ".json") \o Glob(spatial_dir, ".JSON")
             ELSE <<>>)
            \o Glob(base, ".json") \o Glob(base, ".JSON")
    IN  Candidates(NoPath, tissue_positions, expr, SortedPaths(json_files))

(***************************************************************************)
(* visium_hd.py: root selection and discovery                              *)
(***************************************************************************)
\* the maximal digit runs of s as <<first, last>> positions
DigitRuns(s) ==
    LET digit == {i \in 1..Len(s) : IsDigit(CharAt(s, i))}
        starts == {i \in digit : i - 1 \notin digit}
    IN  {<<i, CHOOSE j \in digit : j >= i /\ j + 1 \notin digit /\ (i..j) \subseteq digit>> :
            i \in starts}

RECURSIVE LStripBlanks(_)
LStripBlanks(s) == IF s # "" /\ CharAt(s, 1) = " " THEN LStripBlanks(Tail(s)) ELSE s

\* the runs matched by (\d+)(?:\s*)um
UmRuns(s) ==
    {r \in DigitRuns(s) : StartsWith(LStripBlanks(SubSeq(s, r[2] + 1, Len(s))), "um")}

Leftmost(runs) == CHOOSE r \in runs : \A q \in runs : r[1] <= q[1]
RunValue(s, r) == ParseDigits(SubSeq(s, r[1], r[2]), 0)

NoSize == -1
\* bin_size_um: the number before "um" in the lower-cased name, else the first
\* number of the name, else None
BinSizeUm(name) ==
    IF UmRuns(StrLower(name)) # {}
    THEN RunValue(StrLower(name), Leftmost(UmRuns(StrLower(name))))
    ELSE IF DigitRuns(name) # {} THEN RunValue(name, Leftmost(DigitRuns(name)))
    ELSE NoSize

VisiumRoot(root, bin_name) == [root |-> root, bin_name |-> bin_name]

\* the first bin with a size, in listing order, taken without sorting by size
FirstScoredListed(bins) ==
    bins[CHOOSE i \in 1..Len(bins) :
             /\ BinSizeUm(bins[i].node.name) # NoSize
             /\ \A j \in 1..(i - 1) : BinSizeUm(bins[j].node.name) = NoSize]

\* scored.sort(key=size)[0]: the first bin, in listing order, of least size
FirstSmallest(bins) ==
    LET scored == {i \in 1..Len(bins) : BinSizeUm(bins[i].node.name) # NoSize}
        size(i) == BinSizeUm(bins[i].node.name)
    IN  bins[CHOOSE i \in scored :
                 \A j \in scored : size(i) < size(j) \/ (size(i) = size(j) /\ i <= j)]

\* unscored.sort(key=name)[0]
FirstByName(bins) ==
    bins[CHOOSE i \in 1..Len(bins) :
             \A j \in 1..Len(bins) :
                 bins[i].node.name = bins[j].node.name
                 \/ StrLess(bins[i].node.name, bins[j].node.name)]

\* _discover_visium_root
DiscoverVisiumRoot(base) ==
    IF ~ExistsDir(base, "binned_outputs") THEN VisiumRoot(base, None)
    ELSE LET bins == SelectSeq(IterDir(Join(base, "binned_outputs")), LAMBDA d : IsDir(d.node))
         IN  IF bins = <<>> THEN VisiumRoot(base, None)
             ELSE LET chosen == IF \E i \in 1..Len(bins) : BinSizeUm(bins[i].node.name) # NoSize
                                THEN FirstSmallest(bins)
                                ELSE FirstByName(bins)
                  IN  VisiumRoot(chosen, chosen.node.name)

\* visium_hd._discover_files: no transcript role; the positions are the cell role
VisiumHdDiscoverFiles(root) ==
    LET positions ==
            IF ExistsDir(root, "spatial")
            THEN FirstExisting(Join(root, "spatial"),
                     <<"tissue_positions.csv", "tissue_positions_list.csv",
                       "tissue_positions.parquet", "tissue_positions_list.parquet">>)
            ELSE NoPath
        h5 == FirstExisting(root, <<"filtered_feature_bc_matrix.h5", "filtered_feature_bc_matrix.H5",
                                    "raw_feature_bc_matrix.h5", "raw_feature_bc_matrix.H5">>)
        mex == IF ExistsDir(root, "filtered_feature_bc_matrix")
               THEN Join(root, "filtered_feature_bc_matrix")
               ELSE IF ExistsDir(root, "raw_feature_bc_matrix")
               THEN Join(root, "raw_feature_bc_matrix")
               ELSE NoPath
        expression ==
            IF Found(h5) THEN h5
            ELSE IF Found(mex) THEN mex
            ELSE FirstExisting(root, <<"expression.csv", "expression.csv.gz", "matrix.csv",
                                       "matrix.csv.gz", "expression.tsv">>)
    IN  Candidates(NoPath, positions, expression,
                   SortedPaths(Glob(root, ".json") \o Glob(root, ".JSON")))

(***************************************************************************)
(* Metadata                                                                *)
(***************************************************************************)
MetaJson(v) == [k |-> "json", v |-> v]
MetaStr(s) == [k |-> "str", v |-> s]
MetaFiles(f) == [k |-> "files", v |-> f]
MetaDetection(d) == [k |-> "detection", v |-> d]

Readable(p) == IsFile(p.node) /\ p.node.content.type = "json" /\ p.node.content.valid

\* the name of a .json file without its suffix
JsonStem(name) == SubSeq(name, 1, Len(name) - Len(".json"))

\* sidecars keyed by the stem of the file name instead of the file name
LoadMetadataJsonByStem(json_files) ==
    LET ok == {i \in 1..Len(json_files) : Readable(json_files[i])}
    IN  [n \in {JsonStem(json_files[i].node.name) : i \in ok} |->
            MetaJson(json_files[CHOOSE i \in ok :
                         /\ JsonStem(json_files[i].node.name) = n
                         /\ \A j \in ok : JsonStem(json_files[j].node.name) = n => j <= i
                     ].node.content.value)]

\* _load_metadata_json: meta[p.name] = json.load(f) for each readable file in
\* order; a file that fails to parse is skipped with a warning
LoadMetadataJson(json_files) ==
    LET ok == {i \in 1..Len(json_files) : Readable(json_files[i])}
    IN  [n \in {json_files[i].node.name : i \in ok} |->
            MetaJson(json_files[CHOOSE i \in ok :
                         /\ json_files[i].node.name = n
                         /\ \A j \in ok : json_files[j].node.name = n => j <= i
                     ].node.content.value)]

\* dict.setdefault(key, value)
SetDefault(meta, key, value) == IF key \in DOMAIN meta THEN meta ELSE meta @@ (key :> value)

PathStrs(paths) == [i \in 1..Len(paths) |-> PathStr(paths[i].parts)]

\* the metadata of parse_cosmx, parse_merscope and parse_xenium
TranscriptPlatformMetadata(base, c) ==
    SetDefault(
        SetDefault(LoadMetadataJson(c.json_files), "input_dir", MetaStr(PathStr(base.parts))),
        "files",
        MetaFiles([transcript |-> StrOrNone(c.transcript),
                   cell_metadata |-> StrOrNone(c.cell_metadata),
                   expression |-> StrOrNone(c.expression),
                   json |-> PathStrs(c.json_files)]))

\* the metadata of parse_visium
VisiumMetadata(base, c) ==
    SetDefault(
        SetDefault(LoadMetadataJson(c.json_files), "input_dir", MetaStr(PathStr(base.parts))),
        "files",
        MetaFiles([tissue_positions |-> StrOrNone(c.cell_metadata),
                   expression |-> StrOrNone(c.expression),
                   json |-> PathStrs(c.json_files)]))

\* the metadata of parse_visium_hd
VisiumHdMetadata(base, vis_root, c) ==
    LET m1 == SetDefault(LoadMetadataJson(c.json_files), "input_dir", MetaStr(PathStr(base.parts)))
        m2 == SetDefault(m1, "selected_root", MetaStr(PathStr(vis_root.root.parts)))
        m3 == IF vis_root.bin_name # None THEN SetDefault(m2, "bin", MetaStr(vis_root.bin_name))
              ELSE m2
    IN  SetDefault(m3, "files",
                   MetaFiles([positions |-> StrOrNone(c.cell_metadata),
                              expression |-> StrOrNone(c.expression),
                              json |-> PathStrs(c.json_files)]))

(***************************************************************************)
(* The adapters (parse_cosmx, parse_merscope, parse_xenium, parse_visium,  *)
(* parse_visium_hd) and load_spatial                                       *)
(***************************************************************************)
Dataset(platform, transcript_data, cell_metadata, expression_matrix, metadata) ==
    [ok |-> TRUE, platform |-> platform, transcript_data |-> transcript_data,
     cell_metadata |-> cell_metadata, expression_matrix |-> expression_matrix,
     metadata |-> metadata]

\* an exception leaving the call: nothing is returned
Raised(exc, stage, err, missing, found) ==
    [ok |-> FALSE, exc |-> exc, stage |-> stage, err |-> err,
     missing |-> missing, found |-> found]

HasColumns(df, required) == \A i \in 1..Len(required) : required[i] \in Range(df.cols)

\* an adapter that logs a failed transcript load and goes on with the empty table
AssembleDowngrading(platform, tx, cells, expr, metadata) ==
    IF ~cells.ok
    THEN Raised("ValueError", "cell_metadata", cells.err, cells.missing, cells.found)
    ELSE IF ~expr.ok THEN Raised("ValueError", "expression", expr.err, <<>>, <<>>)
    ELSE Dataset(platform, IF tx.ok THEN tx.df ELSE EmptyTranscriptDf,
                 cells.df, expr.m, metadata)

\* the tail of every adapter: the first loader error in the order the roles
\* are loaded, then _validate_transcripts and _validate_cell_metadata, then
\* the dataset
Assemble(platform, tx, cells, expr, metadata) ==
    IF ~tx.ok THEN Raised("ValueError", "transcript", tx.err, tx.missing, tx.found)
    ELSE IF ~cells.ok
    THEN Raised("ValueError", "cell_metadata", cells.err, cells.missing, cells.found)
    ELSE IF ~expr.ok THEN Raised("ValueError", "expression", expr.err, <<>>, <<>>)
    ELSE IF ~HasColumns(tx.df, TRANSCRIPT_REQUIRED_OUT_COLS)
    THEN Raised("ValueError", "validate", "transcript_columns", <<>>, tx.df.cols)
    ELSE IF ~HasColumns(cells.df, CELL_REQUIRED_OUT_COLS)
    THEN Raised("ValueError", "validate", "cell_columns", <<>>, cells.df.cols)
    ELSE Dataset(platform, tx.df, cells.df, expr.m, metadata)

\* the guards at the head of every adapter: base.exists(), then base.is_dir()
InputDirError(base) ==
    IF ~IsFile(base.node)
    THEN Raised("FileNotFoundError", "input_dir", "missing_path", <<>>, <<>>)
    ELSE Raised("NotADirectoryError", "input_dir", "not_a_directory", <<>>, <<>>)

\* an adapter for which a missing cell metadata file is an error
OrFailCells(p, loaded) ==
    IF Found(p) THEN loaded ELSE LoadError("file_not_found", <<>>, <<>>)

\* a role that was not discovered keeps its empty default
OrEmptyTranscripts(p, loaded) == IF Found(p) THEN loaded ELSE Loaded(EmptyTranscriptDf)
OrEmptyCells(p, loaded) == IF Found(p) THEN loaded ELSE Loaded(EmptyCellMetadataDf)
OrEmptyMatrix(p, loaded) == IF Found(p) THEN loaded ELSE LoadedAs(EmptyMatrix, "empty")

\* parse_cosmx
ParseCosmx(base, env) ==
    IF ~IsDir(base.node) THEN InputDirError(base)
    ELSE
    LET c == CosmxDiscoverFiles(base)
    IN  Assemble("cosmx",
            OrEmptyTranscripts(c.transcript, Then(ReadCsv(c.transcript), CosmxLoadTranscripts)),
            OrEmptyCells(c.cell_metadata, Then(ReadCsv(c.cell_metadata), CosmxLoadCellMetadata)),
            OrEmptyMatrix(c.expression,
                          ThenMatrix(ReadCsv(c.expression), CosmxLoadExpressionMatrix)),
            TranscriptPlatformMetadata(base, c))

\* parse_merscope
ParseMerscope(base, env) ==
    IF ~IsDir(base.node) THEN InputDirError(base)
    ELSE
    LET c == MerscopeDiscoverFiles(base)
    IN  Assemble("merscope",
            OrEmptyTranscripts(c.transcript,
                               Then(ReadTable(c.transcript, env), MerscopeLoadTranscripts)),
            OrEmptyCells(c.cell_metadata,
                         Then(ReadTable(c.cell_metadata, env), MerscopeLoadCellMetadata)),
            OrEmptyMatrix(c.expression,
                          ThenMatrix(ReadTable(c.expression, env), MerscopeLoadExpressionMatrix)),
            TranscriptPlatformMetadata(base, c))

\* parse_xenium
ParseXenium(base, env) ==
    IF ~IsDir(base.node) THEN InputDirError(base)
    ELSE
    LET c == XeniumDiscoverFiles(base)
    IN  Assemble("xenium",
            OrEmptyTranscripts(c.transcript,
                               Then(ReadTable(c.transcript, env), XeniumLoadTranscripts)),
            OrEmptyCells(c.cell_metadata,
                         Then(ReadTable(c.cell_metadata, env), XeniumLoadCellMetadata)),
            OrEmptyMatrix(c.expression, XeniumLoadExpressionMatrix(c.expression, env)),
            TranscriptPlatformMetadata(base, c))

\* parse_visium
ParseVisium(base, env) ==
    IF ~IsDir(base.node) THEN InputDirError(base)
    ELSE
    LET c == VisiumDiscoverFiles(base)
    IN  Assemble("visium",
            Loaded(EmptyTranscriptDf),
            OrEmptyCells(c.cell_metadata,
                         Then(ReadCsv(c.cell_metadata), VisiumLoadTissuePositions)),
            OrEmptyMatrix(c.expression, VisiumLoadExpressionMatrix(c.expression)),
            VisiumMetadata(base, c))

\* parse_visium_hd
ParseVisiumHd(base, env) ==
    IF ~IsDir(base.node) THEN InputDirError(base)
    ELSE
    LET vis_root == DiscoverVisiumRoot(base)
        c == VisiumHdDiscoverFiles(vis_root.root)
    IN  Assemble("visium_hd",
            Loaded(EmptyTranscriptDf),
            OrEmptyCells(c.cell_metadata,
                         Then(ReadTable(c.cell_metadata, env), VisiumHdLoadPositions)),
            OrEmptyMatrix(c.expression, VisiumHdLoadExpressionMatrix(c.expression, env)),
            VisiumHdMetadata(base, vis_root, c))

\* _parse_tabular_cells: the path must be a regular file
ParseTabularCells(path) ==
    IF ~IsFile(path.node)
    THEN Raised("ValueError", "tabular", "not_a_file", <<>>, <<>>)
    ELSE LET read == ReadCsv(path)
         IN  IF ~read.ok THEN Raised("ValueError", "tabular", "read_failed", <<>>, <<>>)
             ELSE LET t == TabularLoad(read.df)
                  IN  IF ~t.ok THEN Raised("ValueError", "tabular", t.err, t.missing, t.found)
                      ELSE Dataset("tabular", EmptyTranscriptDf, t.cells, t.expr,
                                   "input_file" :> MetaStr(PathStr(path.parts)))

AdapterPlatforms == {"cosmx", "merscope", "visium", "visium_hd", "xenium"}

\* the installations in which the adapters are called directly: every optional
\* reader present, or none
UniformEnvironments == {e \in Environments : e.scipy = e.h5py /\ e.h5py = e.pyarrow}

\* _get_parser(platform)(p)
GetParser(platform, p, env) ==
    IF platform = "cosmx" THEN ParseCosmx(p, env)
    ELSE IF platform = "merscope" THEN ParseMerscope(p, env)
    ELSE IF platform = "visium" THEN ParseVisium(p, env)
    ELSE IF platform = "visium_hd" THEN ParseVisiumHd(p, env)
    ELSE IF platform = "xenium" THEN ParseXenium(p, env)
    ELSE Raised("ValueError", "get_parser", "unsupported_platform", <<>>, <<>>)

DetectionRecord(d, p) ==
    [platform |-> d.platform, reason |-> d.reason, input_path |-> PathStr(p.parts)]

\* out["metadata"].setdefault("detection", {...}) on the dataset the parser
\* returned; an exception of the parser leaves load_spatial as it is
WithDetection(ds, d, p) ==
    IF ds.ok
    THEN [ds EXCEPT !.metadata = SetDefault(@, "detection", MetaDetection(DetectionRecord(d, p)))]
    ELSE ds

\* the part of load_spatial that follows detection
LoadDetected(d, p, env) ==
    IF ~d.ok THEN Raised("ValueError", "detect", d.reason, <<>>, <<>>)
    ELSE WithDetection(IF d.platform = "tabular" THEN ParseTabularCells(p)
                       ELSE GetParser(d.platform, p, env),
                       d, p)

\* load_spatial
LoadSpatial(p, env) ==
    IF ~IsFile(p.node) /\ ~IsDir(p.node)
    THEN Raised("FileNotFoundError", "load_spatial", "missing_path", <<>>, <<>>)
    ELSE LoadDetected(DetectSpatialFormat(p), p, env)

(***************************************************************************)
(* Inputs: directory trees and files put together from a menu of entries   *)
(***************************************************************************)
MaxEntries == 3

TranscriptsContent ==
    TableContent(<<"x", "y", "gene", "cell_id">>,
                 << <<Num(10), Num(20), Str("GeneA"), Num(-1)>>,
                    <<Num(11), Num(21), Str("GeneB"), Num(7)>> >>)
NoGeneContent ==
    TableContent(<<"x", "y", "cell_id">>, << <<Num(10), Num(20), Num(7)>> >>)
CellsContent ==
    TableContent(<<"cell_id", "x", "y", "cell_type">>,
                 << <<Num(7), Num(1), Num(2), Str("T")>> >>)
CellsGenesContent ==
    TableContent(<<"cell_id", "x", "y", "GeneA">>,
                 << <<Str("c1"), Num(1), Num(2), Num(3)>> >>)
NoXContent ==
    TableContent(<<"cell_id", "y", "GeneA">>, << <<Str("c1"), Num(2), Num(3)>> >>)
ByGeneContent ==
    TableContent(<<"cell", "GeneA", "GeneB">>, << <<Num(7), Num(4), Num(0)>> >>)
PositionsContent ==
    TableContent(<<"barcode", "in_tissue", "array_row", "array_col",
                   "pxl_row_in_fullres", "pxl_col_in_fullres">>,
                 << <<Str("bc1"), Num(1), Num(0), Num(0), Num(50), Num(60)>>,
                    <<Str("bc2"), Num(0), Num(0), Num(1), Num(51), Num(61)>> >>)
BlobContent == [type |-> "blob"]

MexDir(n) ==
    Dir(n, <<File("matrix.mtx", MtxContent(<<2, 1>>, << <<1, 1, 5>> >>)),
             File("features.tsv", LinesContent(<< <<"f1", "GeneA">>, <<"f2", "GeneB">> >>)),
             File("barcodes.tsv", LinesContent(<< <<"bc1">> >>))>>)
MatrixH5(n) ==
    File(n, H5Content(<<2, 1>>, <<"GeneA", "GeneB">>, <<"bc1">>, << <<1, 1, 5>> >>))

\* the entries a directory handed to load_spatial may contain
EntryMenu ==
    {File("detected_transcripts_r0.csv", TranscriptsContent),
     File("tx_file.csv", TranscriptsContent),
     File("transcripts.csv", NoGeneContent),
     File("Cell_Metadata.CSV", CellsContent),
     File("cells.parquet", CellsContent),
     File("samples.tsv", CellsGenesContent),
     File("detection.json", JsonContent(TRUE, "run")),
     MexDir("filtered_feature_bc_matrix"),
     Dir("spatial", <<File("tissue_positions.csv", PositionsContent),
                      File("scalefactors.json", JsonContent(TRUE, "scale"))>>),
     Dir("binned_outputs",
         <<Dir("square_008um", <<Dir("spatial", <<File("tissue_positions.parquet",
                                                       PositionsContent)>>),
                                 MatrixH5("filtered_feature_bc_matrix.h5")>>),
           Dir("square_002um", <<File("expression.csv", ByGeneContent)>>)>>),
     Dir("analysis_outputs", <<File("cell_by_gene.csv", ByGeneContent)>>)}

\* the selections of at most n entries of the menu
Selections(n) == {S \in SUBSET EntryMenu : Cardinality(S) <= n}

Reversed(s) == [i \in 1..Len(s) |-> s[Len(s) + 1 - i]]

\* the order in which the system lists a directory is not fixed: the entries of
\* a selection are listed by ascending or by descending name
Listings(n) ==
    {SortedNodes(S) : S \in Selections(n)}
    \cup {Reversed(SortedNodes(S)) : S \in Selections(n)}

\* where the input directory sits: its parent's name and its own.  The name of
\* the directory and of its parent only matter to the bin-directory test of the
\* detector, which the shorter listings already decide.
HomePlace == <<"data", "run1">>
BinPlaces == {<<"binned_outputs", "bin_a">>, <<"data", "square_016um">>}

\* what binned_outputs/ may hold: bin directories whose names carry a micron
\* size, some other number or no number, and a file with a size in its name
BinDir(n) == Dir(n, <<Dir("spatial", <<File("tissue_positions.csv", PositionsContent)>>)>>)
BinMenu ==
    {BinDir("square_008um"), BinDir("square_002um"), BinDir("v2_square_008um"),
     BinDir("tile_4"), BinDir("alpha"), BinDir("Beta"),
     File("square_001um.txt", BlobContent)}

\* binned_outputs/ with at most n entries of the menu, listed by ascending or
\* by descending name
BinnedOutputs(n) ==
    LET chosen == {S \in SUBSET BinMenu : 1 <= Cardinality(S) /\ Cardinality(S) <= n}
    IN  {Dir("binned_outputs", SortedNodes(S)) : S \in chosen}
        \cup {Dir("binned_outputs", Reversed(SortedNodes(S))) : S \in chosen}

FileNames ==
    {"cells.csv", "cells.tsv.gz", "Cells.TXT", "sample.v2.csv", "cells.csv.bak",
     "data.parquet", "archive.gz", "README"}
FileContents == {CellsGenesContent, NoXContent, BlobContent}

Inputs ==
    {Path(HomePlace, Dir(HomePlace[2], l)) : l \in Listings(MaxEntries)}
    \cup {Path(pl, Dir(pl[2], SortedNodes(S))) :
              pl \in BinPlaces, S \in Selections(MaxEntries - 1)}
    \cup {Path(HomePlace, Dir(HomePlace[2], <<b>>)) : b \in BinnedOutputs(MaxEntries)}
    \cup {Path(<<"data", n>>, File(n, c)) : n \in FileNames, c \in FileContents}
    \cup {Path(<<"data", "nowhere">>, Missing("nowhere"))}

NoTable == Table(<<>>, <<>>)
NoResult == [ok |-> FALSE, exc |-> "", stage |-> "not run", err |-> "",
             missing |-> <<>>, found |-> <<>>]

(***************************************************************************)
(* load_spatial and detect_spatial_format called on an input               *)
(***************************************************************************)
Init ==
    /\ input \in Inputs
    /\ pc = "start"
    /\ det = NoMatch
    /\ out = NoResult
    /\ tbl = NoTable
    /\ plat = "none"
    /\ res = NoResult
    /\ installed = NothingImported
    /\ modules = NoModules

\* a call of detect_spatial_format(input)
Detect ==
    /\ pc = "start"
    /\ det' = DetectSpatialFormat(input)
    /\ pc' = "detected"
    /\ UNCHANGED <<input, out, tbl, plat, res, installed, modules>>

\* a call of load_spatial(input) in some installation
Load ==
    /\ pc = "detected"
    /\ \E env \in Environments : installed' = env /\ out' = LoadSpatial(input, env)
    /\ pc' = "loaded"
    /\ UNCHANGED <<input, det, tbl, plat, res, modules>>

\* parse_cosmx, parse_merscope, parse_visium, parse_visium_hd or parse_xenium
\* called on the input itself, in some installation
Parse ==
    /\ pc = "start"
    /\ \E p \in AdapterPlatforms, env \in UniformEnvironments :
           /\ plat' = p
           /\ installed' = env
           /\ out' = GetParser(p, input, env)
    /\ pc' = "parsed"
    /\ UNCHANGED <<input, det, tbl, res, modules>>

Next == Detect \/ Load \/ Parse

Spec == Init /\ [][Next]_vars

(***************************************************************************)
(* Source tables: every header of at most MaxCols names of a menu over     *)
(* fixed rows, and fixed headers over every choice of at most MaxRows rows *)
(***************************************************************************)
MaxCols == 4
MaxRows == 2

HeaderMenu == {"x", "y", "gene", "cell_id", " Y ", "count"}

\* the headers of at most n names, distinct after trimming
RECURSIVE Headers(_)
Headers(n) ==
    IF n = 0 THEN {<<>>}
    ELSE LET shorter == Headers(n - 1)
         IN  shorter \cup
             {Append(hc[1], hc[2]) : hc \in
                 {hc \in shorter \X HeaderMenu :
                      /\ Len(hc[1]) = n - 1
                      /\ StrStrip(hc[2]) \notin
                             {StrStrip(hc[1][i]) : i \in 1..Len(hc[1])}}}

\* two rows for a header of n columns; the second holds the value -1 throughout
FixedRows(n) == << [j \in 1..n |-> Num(j)], [j \in 1..n |-> Num(-1)] >>

\* the sequences of at most n elements of S
RECURSIVE SeqsUpTo(_, _)
SeqsUpTo(S, n) ==
    IF n = 0 THEN {<<>>}
    ELSE LET shorter == SeqsUpTo(S, n - 1)
         IN  shorter \cup {Append(sq[1], sq[2]) : sq \in
                              {sq \in shorter \X S : Len(sq[1]) = n - 1}}

CoordinateValues == {Num(2), Str("far")}
GeneValues == {Str("GeneA"), Str("GeneB")}
CellIdValues == {NA, Num(-1), Num(7), Str("-1"), Str("c1")}
KeyValues == {NA, Str("c1"), Str("c2")}
CountValues == {NA, Num(2), Num(3)}
InTissueValues == {NA, Num(0), Num(1), Num(2), Half(1)}

TranscriptRows == {<<x, Num(5), Str("GeneA"), c>> : x \in CoordinateValues, c \in CellIdValues}
LongRows == {<<c, g, n>> : c \in KeyValues, g \in GeneValues, n \in {Num(2), Num(3)}}
                \cup {<<Str("c1"), NA, Num(2)>>, <<Str("c1"), Str("GeneA"), NA>>}
WideRows == {<<c, n, Num(1)>> : c \in KeyValues, n \in CountValues}
PositionRows ==
    {<<Str("bc1"), t, Num(0), Num(1), Num(50), Num(2)>> : t \in InTissueValues}
    \cup {<<Str("bc2"), t, Num(0), Num(1), Num(50), Num(2)>> : t \in {Num(1), Half(1)}}

\* headers of expression tables with the three long-format columns among six
\* and among seven columns, led by a cell-id name, a gene name or another name
WideHeaders ==
    {<<"cell_id", "gene", "count", "a", "b", "c">>,
     <<"cell_id", "gene", "count", "a", "b", "c", "d">>,
     <<"gene", "cell_id", "count", "a", "b", "c", "d">>,
     <<"sample", "cell_id", "gene", "count", "a", "b">>,
     <<"sample", "cell_id", "gene", "count", "a", "b", "c">>}

\* headers of tissue positions files in which two columns differ only in case
DuplicateHeaders ==
    {<<"barcode", "pxl_row_in_fullres", "pxl_col_in_fullres", "PXL_COL_IN_FULLRES">>,
     <<"barcode", "pxl_row_in_fullres", "PXL_COL_IN_FULLRES", "pxl_col_in_fullres">>,
     <<"barcode", "Barcode", "pxl_row_in_fullres", "pxl_col_in_fullres">>}

\* headers of tissue positions files with a pixel pair, an array pair, one
\* axis of each, or one axis only
AxisHeaders ==
    {<<"barcode", "pxl_row_in_fullres", "pxl_col_in_fullres">>,
     <<"barcode", "array_row", "array_col">>,
     <<"barcode", "pxl_col_in_fullres", "array_row">>,
     <<"barcode", "pxl_row_in_fullres", "array_col">>,
     <<"barcode", "pxl_col_in_fullres", "array_row", "array_col">>,
     <<"barcode", "pxl_col_in_fullres">>,
     <<"barcode", "array_row">>}

Tables ==
    {Table(h, FixedRows(Len(h))) :
        h \in Headers(MaxCols) \cup WideHeaders \cup DuplicateHeaders \cup AxisHeaders}
    \cup {Table(<<"x", "y", "gene", "cell_id">>, rows) : rows \in SeqsUpTo(TranscriptRows, MaxRows)}
    \cup {Table(<<"cell_id", "gene", "count">>, rows) : rows \in SeqsUpTo(LongRows, MaxRows)}
    \cup {Table(<<"cell", "GeneA", "GeneB">>, rows) : rows \in SeqsUpTo(WideRows, MaxRows)}
    \cup {Table(<<"barcode", "in_tissue", "array_row", "array_col",
                  "pxl_row_in_fullres", "pxl_col_in_fullres">>, rows) :
             rows \in SeqsUpTo(PositionRows, MaxRows)}

(***************************************************************************)
(* The loaders and the adapters applied to a source table                  *)
(***************************************************************************)
TranscriptPlatforms == {"cosmx", "merscope", "xenium"}
CellPlatforms == {"cosmx", "merscope", "xenium", "visium", "visium_hd"}
ExpressionPlatforms == {"cosmx", "merscope", "xenium", "visium_hd"}

\* the _load_transcripts of a platform
TranscriptLoader(platform, raw) ==
    IF platform = "cosmx" THEN CosmxLoadTranscripts(raw)
    ELSE IF platform = "merscope" THEN MerscopeLoadTranscripts(raw)
    ELSE XeniumLoadTranscripts(raw)

\* the _load_cell_metadata (or positions loader) of a platform
CellLoader(platform, raw) ==
    IF platform = "cosmx" THEN CosmxLoadCellMetadata(raw)
    ELSE IF platform = "merscope" THEN MerscopeLoadCellMetadata(raw)
    ELSE IF platform = "xenium" THEN XeniumLoadCellMetadata(raw)
    ELSE IF platform = "visium" THEN VisiumLoadTissuePositions(raw)
    ELSE VisiumHdLoadPositions(raw)

\* the expression table loader of a platform
ExpressionLoader(platform, raw) ==
    IF platform = "cosmx" THEN CosmxLoadExpressionMatrix(raw)
    ELSE IF platform = "merscope" THEN MerscopeLoadExpressionMatrix(raw)
    ELSE IF platform = "xenium" THEN XeniumLoadExpressionTableCsv(raw)
    ELSE VisiumHdLoadExpressionTableCsv(raw)

\* the file names under which each adapter finds its transcripts and its cell
\* metadata first
TranscriptFileName ==
    [cosmx |-> "tx_file.csv", merscope |-> "detected_transcripts.csv",
     xenium |-> "transcripts.csv"]
CellFileName ==
    [cosmx |-> "cell_metadata.csv", merscope |-> "cell_metadata.csv",
     xenium |-> "cells.csv"]

\* a directory that holds the table as the transcripts file, next to a cell
\* metadata file that loads
TranscriptDir(platform, raw) ==
    Path(<<"data", "run1">>,
         Dir("run1", <<File(TranscriptFileName[platform], TableContent(raw.cols, raw.rows)),
                       File(CellFileName[platform], CellsContent)>>))

\* a directory that holds the table as the cell metadata (or tissue positions)
\* file, and no file of another role
CellDir(platform, raw) ==
    LET positions == File("tissue_positions.csv", TableContent(raw.cols, raw.rows))
    IN  Path(<<"data", "run1">>,
             IF platform = "visium"
             THEN Dir("run1", <<Dir("spatial", <<positions>>)>>)
             ELSE IF platform = "visium_hd"
             THEN Dir("run1", <<Dir("binned_outputs",
                                    <<Dir("square_008um", <<Dir("spatial", <<positions>>)>>)>>)>>)
             ELSE Dir("run1", <<File(CellFileName[platform],
                                     TableContent(raw.cols, raw.rows))>>))

NoInput == Path(<<"data", "nowhere">>, Missing("nowhere"))

InitTable ==
    /\ tbl \in Tables
    /\ pc = "table"
    /\ plat = "none"
    /\ res = NoResult
    /\ installed = NothingImported
    /\ modules = NoModules
    /\ input = NoInput
    /\ det = NoMatch
    /\ out = NoResult

\* _load_transcripts of some platform on the table
LoadTranscripts ==
    /\ pc = "table"
    /\ \E p \in TranscriptPlatforms : plat' = p /\ res' = TranscriptLoader(p, tbl)
    /\ pc' = "transcripts"
    /\ UNCHANGED <<input, det, out, tbl, installed, modules>>

\* _load_cell_metadata / the positions loader of some platform on the table
LoadCellMetadata ==
    /\ pc = "table"
    /\ \E p \in CellPlatforms : plat' = p /\ res' = CellLoader(p, tbl)
    /\ pc' = "cells"
    /\ UNCHANGED <<input, det, out, tbl, installed, modules>>

\* the expression table loader of some platform on the table
LoadExpressionMatrix ==
    /\ pc = "table"
    /\ \E p \in ExpressionPlatforms : plat' = p /\ res' = ExpressionLoader(p, tbl)
    /\ pc' = "expression"
    /\ UNCHANGED <<input, det, out, tbl, installed, modules>>

\* _parse_tabular_cells on a file that holds the table
ParseTabular ==
    /\ pc = "table"
    /\ plat' = "tabular"
    /\ input' = Path(<<"data", "cells.csv">>, File("cells.csv", TableContent(tbl.cols, tbl.rows)))
    /\ out' = ParseTabularCells(input')
    /\ pc' = "parsed_tabular"
    /\ UNCHANGED <<det, res, tbl, installed, modules>>

\* parse_cosmx / parse_merscope / parse_xenium, in some installation, on a
\* directory that holds the table as its transcripts file
ParseTranscriptDir ==
    /\ pc = "table"
    /\ \E p \in TranscriptPlatforms, env \in UniformEnvironments :
           /\ plat' = p
           /\ input' = TranscriptDir(p, tbl)
           /\ installed' = env
           /\ out' = GetParser(p, input', env)
    /\ pc' = "parsed_transcripts"
    /\ UNCHANGED <<det, res, tbl, modules>>

\* any of the five adapters, in some installation, on a directory that holds the
\* table as its cell metadata (or tissue positions) file
ParseCellDir ==
    /\ pc = "table"
    /\ \E p \in CellPlatforms, env \in UniformEnvironments :
           /\ plat' = p
           /\ input' = CellDir(p, tbl)
           /\ installed' = env
           /\ out' = GetParser(p, input', env)
    /\ pc' = "parsed_cells"
    /\ UNCHANGED <<det, res, tbl, modules>>

\* the alias lists a caller may hand to the column resolver: names of the header
\* menu in both priority orders, and a name no table has
AliasLists ==
    {<<>>, <<"y">>, <<"z">>, <<"x", "y">>, <<"y", "x">>, <<"z", "x">>, <<"y", "z">>}

\* a resolver that walks the columns of the table and takes the first one whose
\* name is among the aliases
ResolveInTableOrder(df, candidates) ==
    LET low(i) == StrLower(StrStrip(df.cols[i]))
        hits == {i \in 1..Len(df.cols) : low(i) \in Range(candidates)}
    IN  IF hits = {} THEN None ELSE df.cols[CHOOSE i \in hits : \A j \in hits : i <= j]

\* the column resolver: the column map of the table, then _first_present with
\* the caller's aliases
Resolve(df, candidates) == FirstPresent(LowerMapColumns(df), candidates)

Resolved(candidates, column) ==
    [ok |-> TRUE, candidates |-> candidates, column |-> column]

\* the column resolver called on the table's columns with some alias list
ResolveColumn ==
    /\ pc = "table"
    /\ \E candidates \in AliasLists : res' = Resolved(candidates, Resolve(tbl, candidates))
    /\ pc' = "resolved"
    /\ UNCHANGED <<input, det, out, tbl, plat, installed, modules>>

NextTable == LoadTranscripts \/ LoadCellMetadata \/ LoadExpressionMatrix
             \/ ParseTabular \/ ParseTranscriptDir \/ ParseCellDir \/ ResolveColumn

SpecTable == InitTable /\ [][NextTable]_vars

(***************************************************************************)
(* The matrix loaders applied to a MEX directory or a 10x H5 file: every   *)
(* declared shape up to MaxLabels + 1 in each dimension and the shapes at  *)
(* and just above the two dense ceilings, against at most MaxLabels        *)
(* features and barcodes                                                   *)
(***************************************************************************)
MaxLabels == 2

\* "bc1", "bc2", ...
LabelNames(prefix, n) == [i \in 1..n |-> prefix \o NatToStr(i)]
LabelRows(prefix, n) == [i \in 1..n |-> <<prefix \o NatToStr(i)>>]

\* lines of features.tsv: id and name, id alone, id and a blank name
FeatureRowMenu == {<<"f1", "GeneA">>, <<"f2">>, <<"f3", " ">>}

SmallShapes == (0..(MaxLabels + 1)) \X (0..(MaxLabels + 1))
CeilingShapes == {<<4000, 5000>>, <<4000, 5001>>, <<5000, 10000>>, <<5001, 10000>>}
DeclaredShapes == SmallShapes \cup CeilingShapes

\* the coordinate entries of a file, as <<row, column, value>>
EntryLists ==
    {<<>>, << <<1, 1, 5>> >>, << <<1, 1, 5>>, <<1, 1, 2>> >>, << <<3, 1, 4>> >>}

MexInputDir(shape, entries, feature_rows, n_barcodes) ==
    Path(<<"data", "run1", "filtered_feature_bc_matrix">>,
         Dir("filtered_feature_bc_matrix",
             <<File("matrix.mtx", MtxContent(shape, entries)),
               File("features.tsv", LinesContent(feature_rows)),
               File("barcodes.tsv", LinesContent(LabelRows("bc", n_barcodes)))>>))

MexInputs ==
    {MexInputDir(sh, en, fr, nb) :
        sh \in DeclaredShapes, en \in EntryLists,
        fr \in SeqsUpTo(FeatureRowMenu, MaxLabels), nb \in 0..MaxLabels}

\* an H5 file is a well-formed CSC matrix: its entries lie inside its shape
H5InputFile(shape, entries, n_features, n_barcodes) ==
    Path(<<"data", "run1", "cell_feature_matrix.h5">>,
         File("cell_feature_matrix.h5",
              H5Content(shape, LabelNames("Gene", n_features),
                        LabelNames("bc", n_barcodes), entries)))

H5Inputs ==
    {H5InputFile(se[1], se[2], nf, nb) :
        se \in {se \in DeclaredShapes \X EntryLists :
                   \A i \in 1..Len(se[2]) : InBounds(se[2][i], se[1])},
        nf \in 0..MaxLabels, nb \in 0..MaxLabels}

MexPlatforms == {"visium", "visium_hd", "xenium"}
H5Platforms == {"visium_hd", "xenium"}

\* _load_mex_dir of the platform
MexLoader(platform, path, env) ==
    IF platform = "visium" THEN VisiumLoadMexDir(path) ELSE ScipyLoadMexDir(path, env)

\* _load_10x_h5 of the platform
H5Loader(platform, path, env) ==
    IF platform = "xenium" THEN XeniumLoad10xH5(path, env) ELSE VisiumHdLoad10xH5(path, env)

InitMatrix ==
    /\ input \in MexInputs \cup H5Inputs
    /\ pc = "matrix"
    /\ plat = "none"
    /\ res = NoResult
    /\ installed = NothingImported
    /\ modules = NoModules
    /\ tbl = NoTable
    /\ det = NoMatch
    /\ out = NoResult

\* _load_mex_dir of some platform, in some installation, on the directory
LoadMexDir ==
    /\ pc = "matrix"
    /\ IsDir(input.node)
    /\ \E p \in MexPlatforms, env \in UniformEnvironments :
           /\ plat' = p
           /\ installed' = env
           /\ res' = MexLoader(p, input, env)
    /\ pc' = "mex"
    /\ UNCHANGED <<input, det, out, tbl, modules>>

\* _load_10x_h5 of some platform, in some installation, on the file
Load10xH5 ==
    /\ pc = "matrix"
    /\ IsFile(input.node)
    /\ \E p \in H5Platforms, env \in Environments :
           /\ plat' = p
           /\ installed' = env
           /\ res' = H5Loader(p, input, env)
    /\ pc' = "h5"
    /\ UNCHANGED <<input, det, out, tbl, modules>>

NextMatrix == LoadMexDir \/ Load10xH5

SpecMatrix == InitMatrix /\ [][NextMatrix]_vars

(***************************************************************************)
(* The parsers package: `import parsers`, attribute access on the package  *)
(* (PEP 562 module __getattr__) and dir(parsers)                            *)
(***************************************************************************)
\* _LAZY_ATTRS: lazy name -> (module, attribute)
LazyAttrs ==
    ("parse_cosmx" :> <<"parsers.cosmx", "parse_cosmx">>)
    @@ ("parse_merscope" :> <<"parsers.merscope", "parse_merscope">>)
    @@ ("parse_visium" :> <<"parsers.visium", "parse_visium">>)
    @@ ("parse_visium_hd" :> <<"parsers.visium_hd", "parse_visium_hd">>)
    @@ ("parse_xenium" :> <<"parsers.xenium", "parse_xenium">>)
    @@ ("detect_spatial_format" :> <<"parsers.universal", "detect_spatial_format">>)
    @@ ("load_spatial" :> <<"parsers.universal", "load_spatial">>)

\* the modules of the package, and the name import binds each one to on the
\* package once it is imported
SubmoduleName ==
    ("parsers.cosmx" :> "cosmx") @@ ("parsers.merscope" :> "merscope")
    @@ ("parsers.visium" :> "visium") @@ ("parsers.visium_hd" :> "visium_hd")
    @@ ("parsers.xenium" :> "xenium") @@ ("parsers.universal" :> "universal")
ParserModules == DOMAIN SubmoduleName

\* the names the package's namespace holds once __init__.py has run: the
\* attributes every package gets from the import system and the names the file
\* binds itself
PackageGlobals ==
    {"__name__", "__doc__", "__package__", "__loader__", "__spec__", "__path__",
     "__file__", "__cached__", "__builtins__",
     "annotations", "importlib", "Any", "__all__", "_LAZY_ATTRS",
     "__getattr__", "__dir__", "load_tests"}

\* globals() of the package when mods are the imported modules: importing
\* parsers.x binds x on the package
Globals(mods) == PackageGlobals \cup {SubmoduleName[m] : m \in mods \cap ParserModules}

\* the interpreters: pandas needs numpy, so it is never there without it
ImportEnvironments ==
    {[pandas |-> FALSE, numpy |-> FALSE], [pandas |-> FALSE, numpy |-> TRUE],
     [pandas |-> TRUE, numpy |-> TRUE]}

\* what `import pandas` leaves in sys.modules
PandasModules == {"pandas", "numpy"}

\* the modules whose top level runs `try: import pandas ... except: pd = None`
ImportsPandas ==
    {"parsers.cosmx", "parsers.merscope", "parsers.visium", "parsers.visium_hd",
     "parsers.xenium"}
\* the modules whose top level runs `import numpy` unguarded (before pandas)
ImportsNumpy == {"parsers.visium"}

ImportResult(mods, raised) == [modules |-> mods, raised |-> raised]

\* importlib.import_module(mod_name) for a module of the package: a module in
\* sys.modules is returned as it is; otherwise its top level runs, and a module
\* whose top level raises is not left in sys.modules
ImportModule(mod_name, mods, env) ==
    IF mod_name \in mods THEN ImportResult(mods, "")
    ELSE IF mod_name \in ImportsNumpy /\ ~env.numpy
         THEN ImportResult(mods, "ImportError")
    ELSE ImportResult(
             mods \cup {mod_name}
                  \cup (IF mod_name \in ImportsNumpy THEN {"numpy"} ELSE {})
                  \cup (IF mod_name \in ImportsPandas /\ env.pandas
                        THEN PandasModules ELSE {}),
             "")

\* the outcome of getattr(parsers, name) and of dir(parsers)
Access(name, outcome, value) ==
    [op |-> "getattr", name |-> name, outcome |-> outcome, value |-> value,
     names |-> <<>>]
Listing(names) ==
    [op |-> "dir", name |-> "", outcome |-> "value", value |-> <<>>, names |-> names]
AccessResult(mods, access) == [modules |-> mods, access |-> access]

\* the package's __getattr__(name)
PackageGetAttrHook(name, mods, env) ==
    IF name \notin DOMAIN LazyAttrs
    THEN AccessResult(mods, Access(name, "AttributeError", <<>>))
    ELSE LET mod_name == LazyAttrs[name][1]
             attr == LazyAttrs[name][2]
             imp == ImportModule(mod_name, mods, env)
         IN  IF imp.raised # ""
             THEN AccessResult(imp.modules, Access(name, imp.raised, <<>>))
             ELSE AccessResult(imp.modules, Access(name, "value", <<mod_name, attr>>))

\* getattr(parsers, name): the module's own namespace answers first, and the
\* interpreter calls the module's __getattr__ only for a name it does not hold
GetAttrOfPackage(name, mods, env) ==
    IF name \in Globals(mods)
    THEN AccessResult(mods, Access(name, "value", <<"parsers", name>>))
    ELSE PackageGetAttrHook(name, mods, env)

\* a __dir__ that lists __all__ as well, as a package without __dir__ and with
\* eagerly bound names would
DirAdvertisingAll(mods) == SortedStrings(Globals(mods) \cup DOMAIN LazyAttrs)

\* the package's __dir__(): sorted(set(list(globals().keys())))
PackageDir(mods) == SortedStrings(Globals(mods))

\* the names a caller asks the package for: the seven lazy names, the modules
\* of the package by their short names, names the file binds, and names the
\* package knows nothing about
AttrNames ==
    DOMAIN LazyAttrs
    \cup {SubmoduleName[m] : m \in ParserModules}
    \cup {"load_tests", "importlib", "__all__"}
    \cup {"parse_stereoseq", "Parse_Xenium", "pandas"}

NotImported == [op |-> "none", name |-> "", outcome |-> "", value |-> <<>>, names |-> <<>>]

InitImports ==
    /\ installed \in ImportEnvironments
    \* the application may have imported pandas itself before
    /\ modules \in IF installed.pandas THEN {NoModules, PandasModules} ELSE {NoModules}
    /\ pc = "interpreter"
    /\ res = NotImported
    /\ input = NoInput
    /\ tbl = NoTable
    /\ plat = "none"
    /\ det = NoMatch
    /\ out = NoResult

\* `import parsers`: __init__.py runs `import importlib` and
\* `from typing import Any` and binds its names
ImportPackage ==
    /\ pc = "interpreter"
    /\ modules' = modules \cup {"parsers", "importlib", "typing"}
    /\ pc' = "imported"
    /\ UNCHANGED <<input, det, out, tbl, plat, res, installed>>

\* getattr(parsers, name) for some name
GetAttr ==
    /\ pc = "imported"
    /\ \E name \in AttrNames :
           LET r == GetAttrOfPackage(name, modules, installed)
           IN  modules' = r.modules /\ res' = r.access
    /\ UNCHANGED <<input, pc, det, out, tbl, plat, installed>>

\* dir(parsers)
DirOfPackage ==
    /\ pc = "imported"
    /\ res' = Listing(PackageDir(modules))
    /\ UNCHANGED <<input, pc, det, out, tbl, plat, installed, modules>>

NextImports == ImportPackage \/ GetAttr \/ DirOfPackage

SpecImports == InitImports /\ [][NextImports]_vars

(***************************************************************************)
(* detect_spatial_format on MERSCOPE exports: trees with region folders    *)
(* and analysis_outputs/ folders, and directories of single artifacts      *)
(***************************************************************************)
MaxRegions == 2
MaxNames == 2

Blob(n) == File(n, BlobContent)

\* what a candidate root holds itself: nothing of MERSCOPE, a single
\* transcripts artifact, or a file of the signature
RootMarks == {"none", "weak", "strong"}
MarkFiles(m) ==
    IF m = "weak" THEN {Blob("detected_transcripts_r0.csv")}
    ELSE IF m = "strong" THEN {Blob("cell_by_gene.csv")}
    ELSE {Blob("readme.txt")}

\* analysis_outputs under a directory: absent, a file of that name, a
\* directory holding one of the marks, or a directory that holds nothing but
\* an analysis_outputs/ of its own
AoVariants == {"absent", "file", "deep"} \cup RootMarks
AoNodes(v) ==
    IF v = "absent" THEN {}
    ELSE IF v = "file" THEN {Blob("analysis_outputs")}
    ELSE IF v = "deep"
    THEN {Dir("analysis_outputs",
              <<Dir("analysis_outputs", SortedNodes(MarkFiles("strong")))>>)}
    ELSE {Dir("analysis_outputs", SortedNodes(MarkFiles(v)))}

\* the region folders by name; upper case sorts before lower case
RegionNames == <<"region_1", "Region_2", "region_0">>
RegionNode(name, mark, ao) == Dir(name, SortedNodes(MarkFiles(mark) \cup AoNodes(ao)))
\* a region name is absent, a file, or a folder with or without a match and
\* with or without a matching analysis_outputs/
RegionVariants(name) ==
    {{}, {Blob(name)}}
    \cup {{RegionNode(name, m, a)} : m \in {"none", "weak"}, a \in {"absent", "strong"}}

RECURSIVE RegionChoices(_)
RegionChoices(i) ==
    IF i = 0 THEN {{}}
    ELSE {a \cup b : a \in RegionChoices(i - 1), b \in RegionVariants(RegionNames[i])}

RegionTrees(n) ==
    LET sets == {MarkFiles(m) \cup a \cup r :
                     m \in RootMarks,
                     a \in {AoNodes(v) : v \in AoVariants},
                     r \in RegionChoices(IF n < Len(RegionNames) THEN n ELSE Len(RegionNames))}
    IN  {Dir(HomePlace[2], SortedNodes(S)) : S \in sets}
        \cup {Dir(HomePlace[2], Reversed(SortedNodes(S))) : S \in sets}

\* the entries of a single candidate root: names of the signature (one in
\* upper case), names that begin with or only contain an artifact name, with a
\* counted suffix or another one, and directories named like files
ArtifactMenu ==
    {Blob("detected_transcripts.csv"), Blob("Cell_By_Gene.PARQUET"),
     Blob("detected_transcripts_r0.csv"), Blob("detected_transcripts_r0.tsv"),
     Blob("cell_by_gene_r0.txt"), Blob("entity_by_gene.csv.gz"),
     Blob("old_detected_transcripts.tsv"), Blob("my_cell_by_gene.parquet"),
     Blob("notes.csv"), Blob("readme.txt"),
     Dir("archive.csv", <<>>), Dir("detected_transcripts", <<>>)}

ArtifactDirs(n) ==
    LET sets == {S \in SUBSET ArtifactMenu : Cardinality(S) <= n}
    IN  {Dir(HomePlace[2], SortedNodes(S)) : S \in sets}
        \cup {Dir(HomePlace[2], <<Dir("region_0", SortedNodes(S))>>) : S \in sets}

MerscopeInputs ==
    {Path(HomePlace, d) : d \in RegionTrees(MaxRegions) \cup ArtifactDirs(MaxNames)}

InitRoots ==
    /\ input \in MerscopeInputs
    /\ pc = "start"
    /\ det = NoMatch
    /\ out = NoResult
    /\ tbl = NoTable
    /\ plat = "none"
    /\ res = NoResult
    /\ installed = NothingImported
    /\ modules = NoModules

NextRoots == Detect

SpecRoots == InitRoots /\ [][NextRoots]_vars

(***************************************************************************)
(* detect_spatial_format and load_spatial on Space Ranger outputs: a       *)
(* directory with or without spatial/, feature-bc-matrix artifacts and     *)
(* binned_outputs/, under the names a run or a bin directory has           *)
(***************************************************************************)
PositionsFile(n) == File(n, PositionsContent)

\* spatial/: absent, or a directory holding one positions artifact (csv or
\* parquet, either naming, one name in upper case) or none
SpatialVariants ==
    {{}, {Dir("spatial", <<>>)}}
    \cup {{Dir("spatial", <<PositionsFile(n)>>)} :
              n \in {"tissue_positions.csv", "tissue_positions_list.csv",
                     "tissue_positions.parquet", "Tissue_Positions.CSV"}}

\* the feature-bc-matrix artifacts of the directory
MatrixVariants ==
    {{},
     {MexDir("filtered_feature_bc_matrix")},
     {MexDir("raw_feature_bc_matrix")},
     {MexDir("filtered_feature_bc_matrix"), MexDir("raw_feature_bc_matrix")},
     {MatrixH5("filtered_feature_bc_matrix.h5")},
     {MatrixH5("filtered_feature_bc_matrix.h5"), MexDir("filtered_feature_bc_matrix")},
     {MatrixH5("raw_feature_bc_matrix.h5"), MexDir("filtered_feature_bc_matrix")},
     {MatrixH5("raw_feature_bc_matrix.h5"), MexDir("raw_feature_bc_matrix")}}

\* a bin directory without spatial/
BareBin(n) == Dir(n, <<MatrixH5("filtered_feature_bc_matrix.h5")>>)

\* binned_outputs: absent, a file of that name, a directory without bins, with
\* a bin that has spatial/, with a bin that has none, with a smaller bin that
\* has none next to a larger one that has it, or a directory Binned_Outputs
BinnedVariants ==
    {{},
     {Blob("binned_outputs")},
     {Dir("binned_outputs", <<>>)},
     {Dir("binned_outputs", <<BinDir("square_008um")>>)},
     {Dir("binned_outputs", <<BareBin("square_002um")>>)},
     {Dir("binned_outputs", <<BareBin("square_002um"), BinDir("square_008um")>>)},
     {Dir("Binned_Outputs", <<BinDir("square_008um")>>)}}

SpaceRangerPlaces == {HomePlace} \cup BinPlaces

SpaceRangerInputs ==
    {Path(pl, Dir(pl[2], SortedNodes(s \cup m \cup b))) :
        pl \in SpaceRangerPlaces, s \in SpatialVariants, m \in MatrixVariants,
        b \in BinnedVariants}

InitVisium ==
    /\ input \in SpaceRangerInputs
    /\ pc = "start"
    /\ det = NoMatch
    /\ out = NoResult
    /\ tbl = NoTable
    /\ plat = "none"
    /\ res = NoResult
    /\ installed = NothingImported
    /\ modules = NoModules

NextVisium == Detect \/ Load

SpecVisium == InitVisium /\ [][NextVisium]_vars

(***************************************************************************)
(* The file discoverers applied to one directory: _discover_files of       *)
(* cosmx, xenium and merscope and _discover_visium_root of visium_hd, on   *)
(* every order in which the system may list the directory                  *)
(***************************************************************************)
MaxFiles == 3

\* file names that name one role exactly, that differ from such a name by case
\* only, that carry the fragments of several roles, or that carry the fragment
\* of one role next to another file carrying it too
RoleFileNames ==
    {"cells.csv", "Cells.csv", "CELLS.csv", "transcripts.csv",
     "a_transcripts.csv", "b_transcripts.csv",
     "tx_cells_expr.csv", "cells_by_gene.csv", "transcripts_cells.parquet",
     "notes.txt"}
RoleFiles == {Blob(n) : n \in RoleFileNames}

\* every order in which the entries of S can be listed
Orders(S) ==
    {s \in [1..Cardinality(S) -> S] : \A i, j \in DOMAIN s : s[i] = s[j] => i = j}

\* the listings of at most n entries of the menu, in every order
OrderedListings(menu, n) ==
    UNION {Orders(S) : S \in {T \in SUBSET menu : Cardinality(T) <= n}}

DiscoverInputs ==
    {Path(HomePlace, Dir(HomePlace[2], l)) : l \in OrderedListings(RoleFiles, MaxFiles)}
    \cup {Path(HomePlace, Dir(HomePlace[2], <<Dir("binned_outputs", l)>>)) :
              l \in OrderedListings(BinMenu, MaxFiles) \ {<<>>}}

\* the value a discoverer returned
Discovered(files) == [ok |-> TRUE, files |-> files]
DiscoveredRoot(vis_root) == [ok |-> TRUE, root |-> vis_root]

InitDiscover ==
    /\ input \in DiscoverInputs
    /\ pc = "start"
    /\ det = NoMatch
    /\ out = NoResult
    /\ tbl = NoTable
    /\ plat = "none"
    /\ res = NoResult
    /\ installed = NothingImported
    /\ modules = NoModules

\* cosmx._discover_files(base)
CosmxDiscover ==
    /\ pc = "start"
    /\ plat' = "cosmx"
    /\ out' = Discovered(CosmxDiscoverFiles(input))
    /\ pc' = "discovered"
    /\ UNCHANGED <<input, det, tbl, res, installed, modules>>

\* xenium._discover_files(base)
XeniumDiscover ==
    /\ pc = "start"
    /\ plat' = "xenium"
    /\ out' = Discovered(XeniumDiscoverFiles(input))
    /\ pc' = "discovered"
    /\ UNCHANGED <<input, det, tbl, res, installed, modules>>

\* merscope._discover_files(base)
MerscopeDiscover ==
    /\ pc = "start"
    /\ plat' = "merscope"
    /\ out' = Discovered(MerscopeDiscoverFiles(input))
    /\ pc' = "discovered"
    /\ UNCHANGED <<input, det, tbl, res, installed, modules>>

\* visium_hd._discover_visium_root(base)
VisiumHdDiscoverRoot ==
    /\ pc = "start"
    /\ plat' = "visium_hd"
    /\ out' = DiscoveredRoot(DiscoverVisiumRoot(input))
    /\ pc' = "discovered"
    /\ UNCHANGED <<input, det, tbl, res, installed, modules>>

NextDiscover == CosmxDiscover \/ XeniumDiscover \/ MerscopeDiscover \/ VisiumHdDiscoverRoot

SpecDiscover == InitDiscover /\ [][NextDiscover]_vars

(***************************************************************************)
(* load_spatial on Visium and MERSCOPE directories with JSON sidecars in   *)
(* one or in two of the directories the adapter searches                   *)
(***************************************************************************)
Sidecar(n, valid, value) == File(n, JsonContent(valid, value))

\* the sidecars of spatial/ and of the Visium directory itself
SpatialSidecars ==
    {{},
     {Sidecar("scalefactors.json", TRUE, "spatial")},
     {Sidecar("scalefactors.json", FALSE, "spatial")},
     {Sidecar("scalefactors.json", TRUE, "spatial"), Sidecar("aligned.JSON", TRUE, "fiducials")}}
VisiumBaseSidecars ==
    {{},
     {Sidecar("scalefactors.json", TRUE, "base")},
     {Sidecar("scalefactors.json", FALSE, "base")},
     {Sidecar("metrics.json", TRUE, "metrics")},
     {Sidecar("scalefactors.json", TRUE, "base"), Sidecar("metrics.json", FALSE, "metrics")}}

\* the sidecars of analysis_outputs/ and of the MERSCOPE directory itself
AoSidecars ==
    {{},
     {Sidecar("manifest.json", TRUE, "analysis")},
     {Sidecar("manifest.json", FALSE, "analysis")}}
MerscopeBaseSidecars ==
    {{},
     {Sidecar("manifest.json", TRUE, "base")},
     {Sidecar("manifest.json", FALSE, "base")},
     {Sidecar("manifest.json", TRUE, "base"), Sidecar("experiment.JSON", TRUE, "run")}}

SidecarInputs ==
    {Path(HomePlace,
          Dir(HomePlace[2],
              SortedNodes({Dir("spatial",
                               SortedNodes({File("tissue_positions.csv", PositionsContent)}
                                           \cup s)),
                           MexDir("filtered_feature_bc_matrix")} \cup b))) :
        s \in SpatialSidecars, b \in VisiumBaseSidecars}
    \cup {Path(HomePlace,
               Dir(HomePlace[2],
                   SortedNodes({Dir("analysis_outputs",
                                    SortedNodes({File("cell_by_gene.csv", ByGeneContent)}
                                                \cup a)),
                                File("detected_transcripts.csv", TranscriptsContent)}
                               \cup b))) :
             a \in AoSidecars, b \in MerscopeBaseSidecars}

InitSidecars ==
    /\ input \in SidecarInputs
    /\ pc = "start"
    /\ det = NoMatch
    /\ out = NoResult
    /\ tbl = NoTable
    /\ plat = "none"
    /\ res = NoResult
    /\ installed = NothingImported
    /\ modules = NoModules

NextSidecars == Detect \/ Load

SpecSidecars == InitSidecars /\ [][NextSidecars]_vars

(***************************************************************************)
(* C1: the decision order of detect_spatial_format                         *)
(***************************************************************************)
PlatformTags == {"xenium", "visium", "visium_hd", "cosmx", "merscope", "tabular"}

\* the rules in their documented order, and the tag each one stands for
C1_RuleOrder ==
    <<"file", "merscope", "visium_hd", "visium", "xenium", "cosmx", "single_tabular">>
C1_RuleTag ==
    [file |-> "tabular", merscope |-> "merscope", visium_hd |-> "visium_hd",
     visium |-> "visium", xenium |-> "xenium", cosmx |-> "cosmx",
     single_tabular |-> "tabular"]

\* whether a rule, taken alone, matches the input
C1_RuleMatches(rule, ip) ==
    LET p == ip.node
        names == Dirnames(p)
        parent == ip.parts[Len(ip.parts) - 1]
    IN  IF rule = "file" THEN IsFile(p) /\ IsTabularFile(p.name)
        ELSE IF ~IsDir(p) THEN FALSE
        ELSE IF rule = "merscope"
        THEN \E i \in 1..Len(ToCheck(p)) :
                 LET dn == Dirnames(ToCheck(p)[i].d)
                 IN  MerscopeStrong(dn) \/ MerscopeMedium(dn) \/ MerscopeWeak(dn)
        ELSE IF rule = "visium_hd" THEN LooksLikeVisiumHdRoot(p, names, parent)
        ELSE IF rule = "visium" THEN LooksLikeVisiumRoot(p, names)
        ELSE IF rule = "xenium"
        THEN XeniumStrong(names) \/ XeniumPair(names) \/ XeniumMatrixDir(names)
        ELSE IF rule = "cosmx" THEN CosmxStrong(names) \/ CosmxPair(names)
        ELSE Cardinality(Tabulars(p)) = 1

\* the tag of the first rule of the order that matches, "none" without a match
C1_FirstMatch(ip) ==
    LET hits == {i \in 1..Len(C1_RuleOrder) : C1_RuleMatches(C1_RuleOrder[i], ip)}
    IN  IF hits = {} THEN "none"
        ELSE C1_RuleTag[C1_RuleOrder[CHOOSE i \in hits : \A j \in hits : i <= j]]

\* a directory whose own names match MERSCOPE only weakly and CosMx strongly
C1_WeakMerscopeStrongCosmx ==
    /\ IsDir(input.node)
    /\ LET names == LowerNames(input.node)
       IN  /\ MerscopeWeak(names)
           /\ ~MerscopeStrong(names)
           /\ ~MerscopeMedium(names)
           /\ CosmxStrong(names)

\* C1: once detect_spatial_format has returned, its result carries the tag of the
\* first rule that matches in the order regular tabular file, MERSCOPE, Visium HD,
\* Visium, Xenium, CosMx, directory with a single tabular file; it is a ValueError
\* exactly when no rule matches; a returned tag is one of the six platform tags;
\* and a directory that matches MERSCOPE weakly and CosMx strongly is "merscope".
C1_FirstMatchingRuleWins ==
    pc \in {"detected", "loaded"} =>
        /\ det.platform = C1_FirstMatch(input)
        /\ det.ok <=> C1_FirstMatch(input) # "none"
        /\ det.ok => det.platform \in PlatformTags
        /\ ~det.ok => StartsWith(det.reason, "ValueError")
        /\ C1_WeakMerscopeStrongCosmx => det.platform = "merscope"

\* the detector has answered "merscope" for a directory with a weak MERSCOPE match
\* and a CosMx signature file
C1_Witness ==
    /\ pc = "detected"
    /\ C1_WeakMerscopeStrongCosmx
    /\ det.ok
    /\ det.platform = "merscope"

(***************************************************************************)
(* C2: the canonical columns                                               *)
(***************************************************************************)
\* C2: every dataset returned by one of the five adapters, by the tabular parser
\* or by load_spatial has transcript_data with exactly the columns x, y, gene,
\* cell_id and cell_metadata with exactly the columns cell_id, x, y, cell_type, in
\* that order, whatever columns the source had and whichever roles were found.
C2_CanonicalColumns ==
    out.ok =>
        /\ out.transcript_data.cols = <<"x", "y", "gene", "cell_id">>
        /\ out.cell_metadata.cols = <<"cell_id", "x", "y", "cell_type">>

\* an adapter has returned a dataset with transcript rows loaded from a source
\* table that holds a column outside the canonical four
C2_Witness ==
    /\ pc = "parsed_transcripts"
    /\ out.ok
    /\ Len(out.transcript_data.rows) > 0
    /\ \E i \in 1..Len(tbl.cols) :
           StrStrip(tbl.cols[i]) \notin {"x", "y", "gene", "cell_id"}

(***************************************************************************)
(* C3: roles without a file                                                *)
(***************************************************************************)
Roles == {"transcript", "cell_metadata", "expression"}

\* an adapter has been called on an existing directory, directly or by load_spatial
C3_AdapterRan ==
    /\ IsDir(input.node)
    /\ \/ pc = "parsed"
       \/ pc = "loaded" /\ det.ok /\ det.platform \in AdapterPlatforms
C3_Platform == IF pc = "parsed" THEN plat ELSE det.platform

\* what the discovery of the adapter finds for each role
C3_Discovered ==
    IF C3_Platform = "cosmx" THEN CosmxDiscoverFiles(input)
    ELSE IF C3_Platform = "merscope" THEN MerscopeDiscoverFiles(input)
    ELSE IF C3_Platform = "xenium" THEN XeniumDiscoverFiles(input)
    ELSE IF C3_Platform = "visium" THEN VisiumDiscoverFiles(input)
    ELSE VisiumHdDiscoverFiles(DiscoverVisiumRoot(input).root)

C3_Absent == {r \in Roles : ~Found(C3_Discovered[r])}

\* the role of a returned dataset holds its empty default
C3_EmptyDefault(ds, role) ==
    IF role = "transcript" THEN ds.transcript_data = Table(<<"x", "y", "gene", "cell_id">>, <<>>)
    ELSE IF role = "cell_metadata"
    THEN ds.cell_metadata = Table(<<"cell_id", "x", "y", "cell_type">>, <<>>)
    ELSE ds.expression_matrix.index = <<>> /\ ds.expression_matrix.columns = <<>>

\* C3: when an adapter is called on an existing directory in which discovery finds
\* no file for a role, a returned dataset holds the empty canonical table (or the
\* empty matrix) for that role; the call fails only on a file of a role that was
\* found, so it succeeds when no role has a file.
C3_MissingRoleIsNotFatal ==
    C3_AdapterRan =>
        /\ out.ok => \A r \in C3_Absent : C3_EmptyDefault(out, r)
        /\ ~out.ok => out.stage \in Roles \ C3_Absent
        /\ C3_Absent = Roles => out.ok

\* parse_merscope has returned a dataset from a directory with a transcripts file
\* and no cell metadata file
C3_Witness ==
    /\ C3_AdapterRan
    /\ pc = "parsed"
    /\ plat = "merscope"
    /\ "cell_metadata" \in C3_Absent
    /\ "transcript" \notin C3_Absent
    /\ out.ok
    /\ out.cell_metadata.rows = <<>>
    /\ Len(out.transcript_data.rows) > 0

(***************************************************************************)
(* C4: the detection entry                                                 *)
(***************************************************************************)
\* C4: every dataset returned by load_spatial carries under metadata the entry
\* "detection" with the platform, the reason and the input path; its platform is
\* the tag of the dataset and the tag detect_spatial_format returned for the
\* path; no entry read from a JSON file stands in its place.
C4_DetectionEntry ==
    (pc = "loaded" /\ out.ok) =>
        /\ "detection" \in DOMAIN out.metadata
        /\ out.metadata["detection"] =
               [k |-> "detection",
                v |-> [platform |-> out.platform, reason |-> det.reason,
                       input_path |-> PathStr(input.parts)]]
        /\ det.ok
        /\ out.platform = det.platform

\* load_spatial has returned a dataset whose metadata also holds the content of a
\* file detection.json
C4_Witness ==
    /\ pc = "loaded"
    /\ out.ok
    /\ "detection.json" \in DOMAIN out.metadata
    /\ out.metadata["detection.json"].k = "json"
    /\ out.metadata["detection"].k = "detection"

(***************************************************************************)
(* C5: a directory that holds a single tabular file                        *)
(***************************************************************************)
\* a directory without a platform signature that holds exactly one tabular file
C5_SingleTabularDrop ==
    /\ IsDir(input.node)
    /\ \A rule \in {"merscope", "visium_hd", "visium", "xenium", "cosmx"} :
           ~C1_RuleMatches(rule, input)
    /\ Cardinality(Tabulars(input.node)) = 1

\* C5: load_spatial on a directory without a platform signature that holds
\* exactly one file with a tabular extension returns a dataset with platform
\* "tabular"; it does not raise.
C5_SingleTabularDropLoads ==
    (pc = "loaded" /\ C5_SingleTabularDrop) => (out.ok /\ out.platform = "tabular")

\* load_spatial has raised on such a directory after the detector answered
\* "tabular"
C5_Witness ==
    /\ pc = "loaded"
    /\ C5_SingleTabularDrop
    /\ det.ok
    /\ det.platform = "tabular"
    /\ ~out.ok
    /\ out.exc = "ValueError"
    /\ out.err = "not_a_file"

(***************************************************************************)
(* C6: the extension of a regular file                                     *)
(***************************************************************************)
\* the extension of a file name once a trailing .gz is removed: the text after
\* the last dot that is not the first character, "" without such a dot
C6_Extension(name) ==
    LET n == StrLower(name)
        base == IF EndsWith(n, ".gz") THEN SubSeq(n, 1, Len(n) - Len(".gz")) ELSE n
        dots == {i \in 2..Len(base) : CharAt(base, i) = "."}
    IN  IF dots = {} THEN ""
        ELSE SubSeq(base, (CHOOSE i \in dots : \A j \in dots : j <= i) + 1, Len(base))

\* C6: for a regular file the detector answers "tabular" exactly when the
\* extension of the name, after a trailing .gz is removed, is csv, tsv or txt,
\* whatever dots come earlier in the name; otherwise it raises the
\* unsupported-file error.
C6_ExtensionDecides ==
    (pc \in {"detected", "loaded"} /\ IsFile(input.node)) =>
        IF C6_Extension(input.node.name) \in {"csv", "tsv", "txt"}
        THEN det.ok /\ det.platform = "tabular"
        ELSE ~det.ok /\ det.reason =
                 "ValueError: input is a file, but not a supported tabular format"

\* the detector has raised the unsupported-file error for a file whose extension
\* is csv, tsv or txt
C6_Witness ==
    /\ pc = "detected"
    /\ IsFile(input.node)
    /\ C6_Extension(input.node.name) \in {"csv", "tsv", "txt"}
    /\ ~det.ok

(***************************************************************************)
(* C7: a transcripts file without a mandatory column                       *)
(***************************************************************************)
TranscriptAliases ==
    [cosmx |-> CosmxTxAliases, merscope |-> MerscopeTxAliases, xenium |-> XeniumTxAliases]

\* the header of the source table as the loaders see it: trimmed, and lower-cased
C7_Found == [i \in 1..Len(tbl.cols) |-> StrStrip(tbl.cols[i])]
C7_Names == {StrLower(C7_Found[i]) : i \in 1..Len(tbl.cols)}

\* no alias of the field is a column of the source table
C7_Unresolved(field) ==
    \A i \in 1..Len(TranscriptAliases[plat][field]) :
        TranscriptAliases[plat][field][i] \notin C7_Names

C7_Missing == SelectSeq(<<"x", "y", "gene">>, C7_Unresolved)

\* C7: when parse_cosmx, parse_xenium or parse_merscope finds a transcripts file in
\* which x, y or gene resolves through no alias, the call raises a ValueError that
\* names the unresolved fields and the columns found, and returns no dataset, even
\* though the cell metadata file next to it loads; when only cell_id resolves
\* through no alias, the call returns a dataset with one transcript row per source
\* row and cell_id missing in every row.
C7_MandatoryTranscriptColumns ==
    pc = "parsed_transcripts" =>
        /\ C7_Missing # <<>> =>
               out = [ok |-> FALSE, exc |-> "ValueError", stage |-> "transcript",
                      err |-> "missing_columns", missing |-> C7_Missing,
                      found |-> C7_Found]
        /\ (C7_Missing = <<>> /\ C7_Unresolved("cell")) =>
               /\ out.ok
               /\ Len(out.transcript_data.rows) = Len(tbl.rows)
               /\ \A r \in 1..Len(out.transcript_data.rows) :
                      out.transcript_data.rows[r][4] = NA

\* an adapter has raised on a transcripts file that has x and y but no gene column
C7_Witness ==
    /\ pc = "parsed_transcripts"
    /\ C7_Missing = <<"gene">>
    /\ ~out.ok
    /\ out.stage = "transcript"
    /\ out.missing = <<"gene">>

(***************************************************************************)
(* C8: the MERSCOPE sentinel                                               *)
(***************************************************************************)
\* the position of the cell id column of the source table, 0 without one
C8_CellColumn ==
    IF \E i \in 1..Len(tbl.cols) : StrLower(StrStrip(tbl.cols[i])) = "cell_id"
    THEN CHOOSE i \in 1..Len(tbl.cols) : StrLower(StrStrip(tbl.cols[i])) = "cell_id"
    ELSE 0

\* the id is the number -1, or text that reads as the number -1
C8_IsMinusOne(id) == id = Num(-1) \/ (id.k = "str" /\ StrStrip(id.v) = "-1")

C8_Loaded == pc = "transcripts" /\ plat = "merscope" /\ res.ok /\ C8_CellColumn # 0

C9_Position(name) ==
    CHOOSE i \in 1..Len(tbl.cols) : StrLower(StrStrip(tbl.cols[i])) = name

C9_Long ==
    /\ pc = "expression"
    /\ res.ok
    /\ res.layout = "long"
    /\ {"cell_id", "gene", "count"} \subseteq C7_Names

\* the rows of the source table with the given cell id and gene
C9_RowsOf(c, g) ==
    {i \in 1..Len(tbl.rows) :
        /\ AsStringDtype(tbl.rows[i][C9_Position("cell_id")]) = c
        /\ AsStringDtype(tbl.rows[i][C9_Position("gene")]) = Str(g)}

\* the sum of the counts of a set of rows; a count that is no number adds nothing
RECURSIVE C9_Sum(_)
C9_Sum(rs) ==
    IF rs = {} THEN 0
    ELSE LET i == CHOOSE i \in rs : TRUE
             n == ToNumeric(tbl.rows[i][C9_Position("count")])
         IN  (IF n.k = "num" THEN n.v ELSE 0) + C9_Sum(rs \ {i})

\* C9: the matrix of a long-format expression table holds in every cell the sum
\* of the counts of all source rows with that cell id and gene, so repeated pairs
\* add up and a pair without a row holds 0; every source row with a cell id and a
\* gene has its row and its column in the matrix, and no label occurs twice.
C9_LongPivotSums ==
    C9_Long =>
        LET m == res.m
        IN  /\ \A r \in 1..Len(m.index) : \A j \in 1..Len(m.columns) :
                   m.data[r][j] = Num(C9_Sum(C9_RowsOf(m.index[r], m.columns[j])))
            /\ \A i \in 1..Len(tbl.rows) :
                   LET c == AsStringDtype(tbl.rows[i][C9_Position("cell_id")])
                       g == AsStringDtype(tbl.rows[i][C9_Position("gene")])
                   IN  (c # NA /\ g # NA) =>
                           /\ \E r \in 1..Len(m.index) : m.index[r] = c
                           /\ \E j \in 1..Len(m.columns) : Str(m.columns[j]) = g
            /\ \A r, s \in 1..Len(m.index) : m.index[r] = m.index[s] => r = s
            /\ \A j, k \in 1..Len(m.columns) : m.columns[j] = m.columns[k] => j = k

\* a long table with two rows for the same pair, with counts 2 and 3, has been
\* loaded into a matrix of one cell that holds 5
C9_Witness ==
    /\ C9_Long
    /\ tbl.cols = <<"cell_id", "gene", "count">>
    /\ Len(tbl.rows) = 2
    /\ tbl.rows[1] = <<Str("c1"), Str("GeneA"), Num(2)>>
    /\ tbl.rows[2] = <<Str("c1"), Str("GeneA"), Num(3)>>
    /\ res.m.index = <<Str("c1")>>
    /\ res.m.columns = <<"GeneA">>
    /\ res.m.data = << <<Num(5)>> >>

(***************************************************************************)
(* C10: the shape of a wide expression table                               *)
(***************************************************************************)
\* the names under which each expression loader knows a cell id column
C10_CellIdNames ==
    [cosmx |-> CosmxExprAliases.first_cell,
     xenium |-> XeniumExprAliases.first_cell,
     visium_hd |-> VisiumHdExprAliases.first_cell,
     merscope |-> {"entityid", "entity_id", "cell_id", "cellid", "cell"}]

\* a wide table has been loaded: the first column is a cell id column, at least
\* one column follows, and the loader took the wide branch
C10_WideLoaded ==
    /\ pc = "expression"
    /\ res.ok
    /\ res.layout = "wide"
    /\ Len(tbl.cols) >= 2
    /\ StrLower(StrStrip(tbl.cols[1])) \in C10_CellIdNames[plat]

\* C10: the matrix loaded from a wide table whose first column is a cell id column
\* followed by N >= 1 gene columns has N columns, as many rows as the table, and
\* a row index named "cell_id".
C10_WideShape ==
    C10_WideLoaded =>
        /\ Len(res.m.columns) = Len(tbl.cols) - 1
        /\ Len(res.m.index) = Len(tbl.rows)
        /\ res.m.index_name = "cell_id"

\* a loader has returned, for a wide table whose first column is named "cell", a
\* matrix of the right shape whose row index is named "cell"
C10_Witness ==
    /\ C10_WideLoaded
    /\ tbl.cols = <<"cell", "GeneA", "GeneB">>
    /\ Len(tbl.rows) = 2
    /\ Len(res.m.columns) = 2
    /\ Len(res.m.index) = 2
    /\ res.m.index_name = "cell"

(***************************************************************************)
(* C11: the in_tissue filter of the Visium HD positions loader             *)
(***************************************************************************)
\* the Visium HD positions loader has returned a cell table for a positions
\* file with the Space Ranger header
C11_PositionsLoaded ==
    /\ pc = "cells"
    /\ plat = "visium_hd"
    /\ res.ok
    /\ tbl.cols = VisiumPositionNames

\* the in_tissue value of each source row, and whether it reads as a number
C11_InTissue == [r \in 1..Len(tbl.rows) |-> tbl.rows[r][2]]
C11_Parses(c) == IsNumber(c) \/ (c.k = "str" /\ ToNumeric(c) # NA)
C11_SomeParses == \E r \in 1..Len(tbl.rows) : C11_Parses(C11_InTissue[r])

\* the barcodes of the source rows whose in_tissue value is exactly 1, in order
C11_ExactlyOne(c) == c = Num(1) \/ (c.k = "str" /\ ToNumeric(c) = Num(1))
C11_BarcodesOfOnes ==
    SelectRows([r \in 1..Len(tbl.rows) |-> tbl.rows[r][1]],
               [r \in 1..Len(tbl.rows) |-> C11_ExactlyOne(C11_InTissue[r])])

\* the cell ids of the returned cell table, in order
C11_CellIds == [r \in 1..Len(res.df.rows) |-> res.df.rows[r][1]]

\* C11: with an in_tissue column of which at least one value parses as a number,
\* the Visium HD cell table holds exactly the rows whose in_tissue value is
\* exactly 1, in their source order; with no parsable value no row is dropped.
C11_TissueFilter ==
    C11_PositionsLoaded =>
        IF C11_SomeParses
        THEN C11_CellIds = C11_BarcodesOfOnes
        ELSE Len(res.df.rows) = Len(tbl.rows)

\* the loader has returned both rows of a positions file whose in_tissue values
\* are 1 and 1.5
C11_Witness ==
    /\ C11_PositionsLoaded
    /\ C11_InTissue = <<Num(1), Half(1)>>
    /\ C11_CellIds = <<Str("bc1"), Str("bc2")>>

(***************************************************************************)
(* C12: the bin chosen by the Visium HD adapter                            *)
(***************************************************************************)
\* the Visium HD adapter has returned a dataset for an input directory
C12_AdapterRan ==
    /\ \/ pc = "parsed" /\ plat = "visium_hd"
       \/ pc = "loaded" /\ det.platform = "visium_hd"
    /\ out.ok
    /\ IsDir(input.node)

\* the names of the subdirectories of binned_outputs/
C12_Bins ==
    IF ExistsDir(input, "binned_outputs")
    THEN {d.name : d \in {k \in Child(input.node, "binned_outputs").kids : IsDir(k)}}
    ELSE {}

\* the micron size each bin name of the inputs encodes (0: the name holds no number)
C12_MicronSize ==
    [n \in {"square_008um", "square_002um", "v2_square_008um", "tile_4", "alpha", "Beta"} |->
        CASE n \in {"square_008um", "v2_square_008um"} -> 8
          [] n = "square_002um" -> 2
          [] n = "tile_4" -> 4
          [] OTHER -> 0]
C12_Sized == {b \in C12_Bins : C12_MicronSize[b] > 0}

\* the bin the returned metadata names
C12_Bin == out.metadata["bin"].v

\* C12: when binned_outputs/ has a subdirectory, the Visium HD adapter takes as
\* root a subdirectory of least encoded micron size, or the lexicographically
\* smallest name when no name holds a number, and records it as metadata bin;
\* of square_008um and square_002um it takes square_002um.
C12_SmallestBin ==
    (C12_AdapterRan /\ C12_Bins # {}) =>
        /\ "bin" \in DOMAIN out.metadata
        /\ C12_Bin \in C12_Bins
        /\ out.metadata["selected_root"] =
               MetaStr(PathStr(input.parts \o <<"binned_outputs", C12_Bin>>))
        /\ IF C12_Sized # {}
           THEN /\ C12_Bin \in C12_Sized
                /\ \A b \in C12_Sized : C12_MicronSize[C12_Bin] <= C12_MicronSize[b]
           ELSE \A b \in C12_Bins : C12_Bin = b \/ StrLess(C12_Bin, b)
        /\ C12_Bins = {"square_008um", "square_002um"} => C12_Bin = "square_002um"

\* the adapter was given binned_outputs/ listing tile_4, then square_008um, then
\* square_002um, and recorded square_002um
C12_Witness ==
    /\ C12_AdapterRan
    /\ pc = "parsed"
    /\ ExistsDir(input, "binned_outputs")
    /\ Child(input.node, "binned_outputs").listing = <<"tile_4", "square_008um", "square_002um">>
    /\ "bin" \in DOMAIN out.metadata
    /\ C12_Bin = "square_002um"
    /\ Len(out.cell_metadata.rows) = 1

(***************************************************************************)
(* C13: the shape check of the Matrix-Market loaders                       *)
(***************************************************************************)
\* the files of the MEX directory handed to the loader
C13_File(name) == Child(input.node, name).content

\* the shape the matrix file declares, and the numbers of feature and barcode
\* lines next to it
C13_Declared == C13_File("matrix.mtx").shape
C13_Labels == <<Len(C13_File("features.tsv").lines), Len(C13_File("barcodes.tsv").lines)>>

\* C13: a MEX directory whose matrix declares a shape other than (number of
\* features, number of barcodes) makes each of the three MEX loaders fail; a
\* matrix that is returned carries exactly one column per feature and one row
\* per barcode, the barcodes in file order.
C13_ShapeMismatchIsFatal ==
    pc = "mex" =>
        /\ C13_Declared # C13_Labels => ~res.ok
        /\ res.ok =>
              /\ Len(res.m.columns) = C13_Labels[1]
              /\ res.m.index = [b \in 1..C13_Labels[2] |-> Str("bc" \o NatToStr(b))]
              /\ \A b \in 1..Len(res.m.data) : Len(res.m.data[b]) = C13_Labels[1]

\* the scipy-based Xenium loader was given a matrix declaring 2 x 1 next to two
\* features and two barcodes, and failed on the label count
C13_Witness ==
    /\ pc = "mex"
    /\ plat = "xenium"
    /\ installed.scipy
    /\ C13_Declared = <<2, 1>>
    /\ C13_Labels = <<2, 2>>
    /\ ~res.ok
    /\ res.err = "length_mismatch"

(***************************************************************************)
(* C14: the element ceiling of the dense matrix loads                      *)
(***************************************************************************)
\* the shape the matrix handed to the loader declares
C14_Shape ==
    IF IsDir(input.node) THEN Child(input.node, "matrix.mtx").content.shape
    ELSE input.node.content.shape

\* a dense load was attempted: the Visium MEX loader (always dense), or the
\* Xenium H5 loader with h5py but without scipy; and the ceiling of that loader
C14_DenseLoad ==
    \/ pc = "mex" /\ plat = "visium"
    \/ pc = "h5" /\ plat = "xenium" /\ installed.h5py /\ ~installed.scipy
C14_Ceiling == IF plat = "visium" THEN MAX_DENSE_ENTRIES ELSE H5MaxElements
C14_AboveCeiling == C14_DenseLoad /\ C14_Shape[1] * C14_Shape[2] > C14_Ceiling

\* the numbers the error message states
C14_Stated == Range(res.msg.numbers)

\* C14: a dense load that would need more elements than the loader's ceiling
\* fails without building the matrix, and its message states the ceiling value
\* and the actual shape and suggests the sparse-capable path.
C14_CeilingMessage ==
    C14_AboveCeiling =>
        /\ ~res.ok
        /\ res.m = EmptyMatrix
        /\ C14_Ceiling \in C14_Stated
        /\ {C14_Shape[1], C14_Shape[2]} \subseteq C14_Stated
        /\ Contains(res.msg.text, "scipy")

\* the Visium loader refused a matrix declaring 4000 x 5001 with a message that
\* states 4000, 5001 and 20004000 and advises scipy, but not the ceiling
C14_Witness ==
    /\ C14_AboveCeiling
    /\ plat = "visium"
    /\ C14_Shape = <<4000, 5001>>
    /\ ~res.ok
    /\ res.err = "too_large"
    /\ res.msg.numbers = <<4000, 5001, 20004000>>
    /\ Contains(res.msg.text, "scipy")
    /\ MAX_DENSE_ENTRIES \notin C14_Stated

(***************************************************************************)
(* C15: the column resolver follows the alias order                        *)
(***************************************************************************)
\* the lowercased-trimmed name of each column
C15_Lowered(cols) == [i \in 1..Len(cols) |-> StrLower(StrStrip(cols[i]))]

\* the first alias, in alias order, that is among the names (None without one)
C15_FirstAlias(candidates, names) ==
    LET present == {i \in 1..Len(candidates) : candidates[i] \in Range(names)}
    IN  IF present = {} THEN None
        ELSE candidates[CHOOSE i \in present : \A j \in present : i <= j]

\* the table with its columns i and j exchanged
C15_Swapped(i, j) ==
    Table([k \in 1..Len(tbl.cols) |->
              IF k = i THEN tbl.cols[j] ELSE IF k = j THEN tbl.cols[i] ELSE tbl.cols[k]],
          tbl.rows)

\* no two columns share a lowercased-trimmed name
C15_Distinct(names) == \A i, j \in 1..Len(names) : names[i] = names[j] => i = j

\* what the resolver returns does not change when two columns change places
C15_SameInEveryColumnOrder ==
    \A i \in 1..Len(tbl.cols) : \A j \in (i + 1)..Len(tbl.cols) :
        Resolve(C15_Swapped(i, j), res.candidates) = res.column

\* the resolver returns a column matched by the first alias, in alias order,
\* that is present among the lowercased-trimmed names, absent when none is
C15_FirstAliasWins ==
    LET names == C15_Lowered(tbl.cols)
        first == C15_FirstAlias(res.candidates, names)
    IN  IF first = None THEN res.column = None
        ELSE \E i \in 1..Len(names) : res.column = tbl.cols[i] /\ names[i] = first

\* C15 as stated: the resolver returns the column matched by the first present
\* alias in alias order, whatever the order of the columns of the table, and
\* absent when no alias matches.
C15_AliasOrderNotTableOrder ==
    pc = "resolved" => C15_FirstAliasWins /\ C15_SameInEveryColumnOrder

\* C15, amended: the resolver returns a column matched by the first present
\* alias in alias order and absent when no alias matches; of several columns
\* with the matched lowercased-trimmed name it returns the first in table order,
\* and its answer is independent of the column order when no two columns share
\* such a name; with aliases x, y and columns y, x it returns x.
C15_AliasOrderFirstOccurrence ==
    pc = "resolved" =>
        LET names == C15_Lowered(tbl.cols)
            first == C15_FirstAlias(res.candidates, names)
        IN  /\ C15_FirstAliasWins
            /\ \A i \in 1..Len(names) :
                   names[i] = first => \E j \in 1..i : tbl.cols[j] = res.column
            /\ C15_Distinct(names) => C15_SameInEveryColumnOrder
            /\ (res.candidates = <<"x", "y">> /\ Len(tbl.cols) >= 2
                /\ tbl.cols[1] = "y" /\ tbl.cols[2] = "x") => res.column = "x"

\* the resolver was given the aliases x, y and a table whose columns start with
\* y, x, and returned x
C15_Witness ==
    /\ pc = "resolved"
    /\ res.candidates = <<"x", "y">>
    /\ Len(tbl.cols) >= 2
    /\ tbl.cols[1] = "y"
    /\ tbl.cols[2] = "x"
    /\ res.column = "x"

(***************************************************************************)
(* C16: the provenance entries of the metadata                             *)
(***************************************************************************)
\* a dataset has been returned, by load_spatial or by an adapter called directly
C16_Returned == pc \in {"loaded", "parsed"} /\ out.ok

\* the keys of the metadata other than the JSON sidecars (keyed by file name)
C16_OwnKeys == {k \in DOMAIN out.metadata : ~EndsWith(StrLower(k), ".json")}

\* the roles the files sub-map of each platform has to name
C16_FileRoles ==
    [cosmx |-> {"transcript", "cell_metadata", "expression"},
     merscope |-> {"transcript", "cell_metadata", "expression"},
     xenium |-> {"transcript", "cell_metadata", "expression"},
     visium |-> {"tissue_positions", "expression"},
     visium_hd |-> {"positions", "expression"},
     tabular |-> {"cell_metadata"}]

\* the files sub-map names every role of the platform, each with no path or with
\* a path below the input
C16_FilesRecorded ==
    /\ "files" \in DOMAIN out.metadata
    /\ out.metadata["files"].k = "files"
    /\ LET files == out.metadata["files"].v
       IN  /\ C16_FileRoles[out.platform] \subseteq DOMAIN files
           /\ \A r \in C16_FileRoles[out.platform] :
                  files[r] = None \/ StartsWith(files[r], PathStr(input.parts))

\* a key that records the search root, next to the reserved keys
C16_RecordsSearchRoot ==
    C16_OwnKeys \ {"input_dir", "input_file", "files", "detection", "bin"} # {}

\* the adapter chose a bin: binned_outputs/ holds a subdirectory
C16_BinSelected ==
    /\ IsDir(input.node)
    /\ ExistsDir(input, "binned_outputs")
    /\ \E d \in Child(input.node, "binned_outputs").kids : IsDir(d)

\* C16: the metadata of every returned dataset holds input_dir or input_file and
\* a files sub-map naming the path that served each role (or none); for MERSCOPE
\* and Visium HD it also records the resolved search root, and for Visium HD the
\* bin when one was selected.
C16_ProvenanceRecorded ==
    C16_Returned =>
        /\ {"input_dir", "input_file"} \cap DOMAIN out.metadata # {}
        /\ C16_FilesRecorded
        /\ out.platform \in {"merscope", "visium_hd"} => C16_RecordsSearchRoot
        /\ (out.platform = "visium_hd" /\ C16_BinSelected) => "bin" \in DOMAIN out.metadata

\* parse_merscope has returned a dataset whose expression file was found under
\* analysis_outputs/ and whose metadata holds input_dir and files and nothing else
C16_Witness ==
    /\ C16_Returned
    /\ pc = "parsed"
    /\ out.platform = "merscope"
    /\ DOMAIN out.metadata = {"input_dir", "files"}
    /\ out.metadata["files"].v.expression = "data/run1/analysis_outputs/cell_by_gene.csv"

(***************************************************************************)
(* C17: the reason of a detection identifies the rule that fired           *)
(***************************************************************************)
\* detect_spatial_format has returned a result for the input
C17_Detected == pc = "detected" /\ det.ok

\* the Visium HD rule through a bin directory below binned_outputs/
C17_BinnedOutputsChild ==
    /\ HasChild(input.node, "binned_outputs")
    /\ IsDir(Child(input.node, "binned_outputs"))
    /\ \E d \in Child(input.node, "binned_outputs").kids :
           IsDir(d) /\ "spatial" \in LowerNames(d)

\* the rule that fired, for the rules after the MERSCOPE roots
C17_FiredRule ==
    LET names == LowerNames(input.node)
    IN  CASE det.platform = "visium_hd" ->
                 IF C17_BinnedOutputsChild THEN "visium_hd: binned_outputs child"
                 ELSE "visium_hd: input is a bin directory"
          [] det.platform = "visium" -> "visium"
          [] det.platform = "xenium" ->
                 IF XeniumStrong(names) THEN "xenium: signature"
                 ELSE IF XeniumPair(names) THEN "xenium: pair"
                 ELSE "xenium: matrix directory"
          [] det.platform = "cosmx" ->
                 IF CosmxStrong(names) THEN "cosmx: signature" ELSE "cosmx: pair"
          [] det.platform = "tabular" ->
                 IF IsFile(input.node) THEN "file" ELSE "single tabular file"
          [] OTHER -> "merscope"

\* the rule each reason of the detector stands for
C17_NamedRule ==
    CASE det.reason = "found Space Ranger binned_outputs/" -> "visium_hd: binned_outputs child"
      [] det.reason = "found spatial/tissue_positions* and feature_bc_matrix" -> "visium"
      [] det.reason = "matched Xenium signature filename" -> "xenium: signature"
      [] det.reason = "found transcripts* and cells* files" -> "xenium: pair"
      [] det.reason = "found cell_feature_matrix directory" -> "xenium: matrix directory"
      [] det.reason = "matched CosMx signature filename" -> "cosmx: signature"
      [] det.reason = "found tx/transcript and cell metadata files" -> "cosmx: pair"
      [] StartsWith(det.reason, "file suffix=") -> "file"
      [] StartsWith(det.reason, "directory contains single tabular file: ") ->
             "single tabular file"
      [] Contains(det.reason, "MERSCOPE") \/ Contains(det.reason, "detected_transcripts*") ->
             "merscope"
      [] OTHER -> "none"

\* C17: the reason of a successful detection identifies the rule that fired, so
\* that detections through different rules never carry the same reason (Visium
\* HD through a binned_outputs/ child against Visium HD because the input is
\* itself a bin directory), and it names no signature that the inspected
\* directory does not hold.
C17_ReasonIdentifiesRule ==
    C17_Detected =>
        /\ C17_NamedRule = C17_FiredRule
        /\ Contains(det.reason, "binned_outputs/") =>
               "binned_outputs" \in LowerNames(input.node)

\* a directory square_016um that holds spatial/ and a feature matrix but no
\* binned_outputs/ was detected as Visium HD with the reason of the
\* binned_outputs rule
C17_Witness ==
    /\ C17_Detected
    /\ det.platform = "visium_hd"
    /\ input.node.name = "square_016um"
    /\ "binned_outputs" \notin LowerNames(input.node)
    /\ det.reason = "found Space Ranger binned_outputs/"

(***************************************************************************)
(* C18: the parsers package imports its parser modules lazily              *)
(***************************************************************************)
\* the step is `import parsers`
C18_PackageImported == pc = "interpreter" /\ pc' = "imported"
\* the step is getattr(parsers, name) / dir(parsers)
C18_Accessed == pc = "imported" /\ res'.op = "getattr"
C18_Listed == pc = "imported" /\ res'.op = "dir"
\* what a step added to sys.modules
C18_NewModules == modules' \ modules
C18_ListedNames == {res'.names[i] : i \in 1..Len(res'.names)}

\* importing the package loads no parser module and does not import pandas
C18_ImportLoadsNoParser ==
    C18_PackageImported => C18_NewModules \cap (ParserModules \cup PandasModules) = {}
\* a parser module (or pandas) enters sys.modules only by the access of one of
\* the seven lazy names, and then it is the module of that name
C18_OnlyLazyNamesImport ==
    C18_NewModules \cap (ParserModules \cup PandasModules) # {}
        => /\ C18_Accessed
           /\ res'.name \in DOMAIN LazyAttrs
           /\ C18_NewModules \cap ParserModules = {LazyAttrs[res'.name][1]}
\* dir(parsers) lists none of the lazy names, whatever was accessed before
C18_DirHidesLazyNames ==
    C18_Listed => C18_ListedNames \cap DOMAIN LazyAttrs = {}
\* a name that is neither lazy nor held by the package's namespace raises
\* AttributeError and imports nothing
C18_UndefinedNameRaises ==
    C18_Accessed /\ res'.name \notin DOMAIN LazyAttrs /\ res'.name \notin Globals(modules)
        => res'.outcome = "AttributeError" /\ modules' = modules
\* a name of the package's namespace is answered without importing anything
C18_DefinedNameAnswers ==
    C18_Accessed /\ res'.name \in Globals(modules)
        => res'.outcome = "value" /\ modules' = modules

\* C18 as stated: importing the package loads no parser module and no pandas, a
\* parser module is imported only by the access of a lazy name, dir() lists no
\* lazy name, and the access of ANY other name raises AttributeError without
\* importing anything
C18_EveryOtherNameRaises ==
    [][/\ C18_ImportLoadsNoParser
       /\ C18_OnlyLazyNamesImport
       /\ C18_DirHidesLazyNames
       /\ (C18_Accessed /\ res'.name \notin DOMAIN LazyAttrs
              => res'.outcome = "AttributeError" /\ modules' = modules)]_vars

\* C18, amended: importing the package loads no parser module and no pandas, a
\* parser module is imported only by the access of one of the seven lazy names,
\* dir() lists no lazy name, and the access of any other name imports nothing;
\* it raises AttributeError unless the package's namespace holds the name (a
\* name __init__.py binds, or the short name of a parser module imported
\* earlier), which is answered with its value
C18_LazyImports ==
    [][/\ C18_ImportLoadsNoParser
       /\ C18_OnlyLazyNamesImport
       /\ C18_DirHidesLazyNames
       /\ C18_UndefinedNameRaises
       /\ C18_DefinedNameAnswers]_vars

\* parse_cosmx was accessed earlier, then an unknown name raised AttributeError,
\* and no other parser module is loaded
C18_Witness ==
    /\ pc = "imported"
    /\ modules \cap ParserModules = {"parsers.cosmx"}
    /\ res.op = "getattr"
    /\ res.name = "parse_stereoseq"
    /\ res.outcome = "AttributeError"

(***************************************************************************)
(* C19: the order of the MERSCOPE candidate roots                          *)
(***************************************************************************)
C19_Subdirs(p) == {c \in p.kids : IsDir(c)}
\* the number of subdirectories whose name sorts before that of c
C19_Before(p, c) == Cardinality({b \in C19_Subdirs(p) : StrLess(b.name, c.name)})
C19_Candidate(d, label, rank) == [d |-> d, label |-> label, rank |-> rank]
\* the candidate roots with their place in the stated order: the directory, its
\* analysis_outputs, then the subdirectories by name, each one directly
\* followed by its analysis_outputs
C19_Candidates(p) ==
    {C19_Candidate(p, "root", 0)}
    \cup {C19_Candidate(a, "analysis_outputs", 1) :
              a \in {k \in p.kids : k.name = "analysis_outputs"}}
    \cup {C19_Candidate(c, "child:" \o c.name, 2 * C19_Before(p, c) + 2) :
              c \in C19_Subdirs(p)}
    \cup UNION {{C19_Candidate(a, "child:" \o c.name \o "/analysis_outputs",
                               2 * C19_Before(p, c) + 3) :
                     a \in {k \in c.kids : k.name = "analysis_outputs"}} :
                c \in C19_Subdirs(p)}
C19_Matching(p) == {c \in C19_Candidates(p) : MerscopeInDir(c.d, c.label).ok}
C19_First(p) == CHOOSE c \in C19_Matching(p) : \A o \in C19_Matching(p) : c.rank <= o.rank
C19_Names(reason, c) == EndsWith(reason, " in " \o c.label)
C19_Decided(p, first) ==
    /\ det = MerscopeInDir(first.d, first.label)
    /\ C19_Names(det.reason, first)
    /\ \A c \in C19_Candidates(p) : c.rank # first.rank => ~C19_Names(det.reason, c)

\* C19: the detector visits the candidate roots in the order directory,
\* analysis_outputs/, then each subdirectory in sorted name order directly
\* followed by its own analysis_outputs/; the first root that matches decides
\* and the reason names that root and no other; without a matching root the
\* result is not MERSCOPE
C19_FirstMatchingRootDecides ==
    pc = "detected" /\ IsDir(input.node)
        => IF C19_Matching(input.node) = {}
           THEN det.platform # "merscope"
           ELSE C19_Decided(input.node, C19_First(input.node))

\* the directory and its analysis_outputs/ do not match; Region_2 matches only
\* in its analysis_outputs/, region_1 matches itself and sorts after Region_2,
\* and the directory was listed with region_1 first
C19_Witness ==
    /\ pc = "detected"
    /\ det.reason = "matched MERSCOPE signature in child:Region_2/analysis_outputs"
    /\ HasChild(input.node, "region_1")
    /\ MerscopeInDir(Child(input.node, "region_1"), "child:region_1").ok
    /\ HasChild(input.node, "analysis_outputs")
    /\ input.node.listing[1] = "region_1"

(***************************************************************************)
(* C20: when a candidate root matches MERSCOPE                             *)
(***************************************************************************)
\* the counted suffixes of the weak rule
C20_Suffixes == {".csv", ".csv.gz", ".parquet"}
C20_HasSuffix(n) == \E s \in C20_Suffixes : EndsWith(n, s)
C20_TranscriptsPrefix(n) == StartsWith(n, "detected_transcripts")
C20_ByGenePrefix(n) == StartsWith(n, "cell_by_gene") \/ StartsWith(n, "entity_by_gene")
\* the lower-cased names of all children, and of the children that are files
C20_Names(d) == {StrLower(c.name) : c \in d.kids}
C20_FileNames(d) == {StrLower(c.name) : c \in {k \in d.kids : IsFile(k)}}

C20_Strong(d) == C20_Names(d) \cap merscope_signature # {}
C20_Medium(d) ==
    /\ \E n \in C20_Names(d) : C20_TranscriptsPrefix(n)
    /\ \E n \in C20_Names(d) : C20_ByGenePrefix(n)
C20_Weak(d) ==
    /\ \E n \in C20_Names(d) : C20_TranscriptsPrefix(n) \/ C20_ByGenePrefix(n)
    /\ \E n \in C20_FileNames(d) : C20_HasSuffix(n)
\* the match as stated
C20_Stated(d) == C20_Strong(d) \/ C20_Medium(d) \/ C20_Weak(d)

\* C20: a candidate root matches MERSCOPE exactly when its names meet the
\* signature (strong), or hold a detected_transcripts* name and a
\* cell_by_gene* / entity_by_gene* name (medium), or hold a name with one of
\* those prefixes and at least one file of a counted suffix (weak); a root with
\* such a prefix and no file of a counted suffix does not match
C20_MatchesAsStated ==
    pc = "detected" /\ IsDir(input.node)
        => \A c \in C19_Candidates(input.node) :
               IsDir(c.d) => (MerscopeInDir(c.d, c.label).ok <=> C20_Stated(c.d))

\* the directory holds cell_by_gene_r0.txt and a directory archive.csv, and no
\* file of a counted suffix: the detector answered MERSCOPE by the weak rule
C20_Witness ==
    /\ pc = "detected"
    /\ LowerNames(input.node) = {"cell_by_gene_r0.txt", "archive.csv"}
    /\ IsDir(Child(input.node, "archive.csv"))
    /\ det = Detection("merscope", "weak MERSCOPE match in root")

(***************************************************************************)
(* C21: when a directory is classified visium_hd                           *)
(***************************************************************************)
C21_Names(p) == {StrLower(c.name) : c \in p.kids}
C21_NoMerscopeRoot(p) == ~FirstMerscope(ToCheck(p)).ok
\* (a) a binned_outputs/ child with a subdirectory that passes the Visium-root
\* test or holds a spatial child
C21_BinnedOutputs(p) ==
    \E b \in p.kids :
        /\ b.name = "binned_outputs" /\ IsDir(b)
        /\ \E d \in b.kids :
               /\ IsDir(d)
               /\ (LooksLikeVisiumRoot(d, C21_Names(d)) \/ "spatial" \in C21_Names(d))
\* (b) spatial plus a feature-bc-matrix artifact, under a name like square_*um
\* or under a parent named binned_outputs
C21_BinDirectory(path) ==
    LET p == path.node
        nm == StrLower(p.name)
        parent == StrLower(path.parts[Len(path.parts) - 1])
    IN  /\ "spatial" \in C21_Names(p)
        /\ C21_Names(p) \cap {"filtered_feature_bc_matrix", "filtered_feature_bc_matrix.h5",
                              "raw_feature_bc_matrix", "raw_feature_bc_matrix.h5"} # {}
        /\ \/ StartsWith(nm, "square_") /\ EndsWith(nm, "um")
           \/ parent = "binned_outputs"
C21_Detected == pc = "detected" /\ IsDir(input.node) /\ C21_NoMerscopeRoot(input.node)

\* C21: a directory that matches no MERSCOPE root is classified visium_hd
\* exactly when (a) its binned_outputs/ holds a subdirectory that passes the
\* Visium-root test or has a spatial child, or (b) it has spatial and a
\* feature-bc-matrix artifact and is named like square_*um or sits under
\* binned_outputs; (b) is evaluated whenever (a) fails, and the check comes
\* before the Visium check
C21_HdExactlyWhenStated ==
    C21_Detected
        => (det.platform = "visium_hd"
                <=> C21_BinnedOutputs(input.node) \/ C21_BinDirectory(input))

\* the directory square_016um holds spatial/ with tissue positions, a filtered
\* matrix directory and a FILE named binned_outputs: (b) holds, and the
\* detector answered visium
C21_Witness ==
    /\ pc = "detected"
    /\ input.node.name = "square_016um"
    /\ HasChild(input.node, "binned_outputs")
    /\ IsFile(Child(input.node, "binned_outputs"))
    /\ C21_BinDirectory(input)
    /\ det.platform = "visium"

(***************************************************************************)
(* C22: long and wide expression tables                                    *)
(***************************************************************************)
C22_Aliases ==
    [cosmx |-> CosmxExprAliases, xenium |-> XeniumExprAliases,
     visium_hd |-> VisiumHdExprAliases]
C22_TableLoaded == pc = "expression" /\ plat \in DOMAIN C22_Aliases
\* the lowercased-trimmed names of the table's columns
C22_ColumnNames == {StrLower(StrStrip(tbl.cols[i])) : i \in 1..Len(tbl.cols)}
C22_Resolvable(aliases) == Range(aliases) \cap C22_ColumnNames # {}
C22_IsLong(a) ==
    /\ C22_Resolvable(a.cell) /\ C22_Resolvable(a.gene) /\ C22_Resolvable(a.count)
    /\ Len(tbl.cols) <= 6
C22_First == StrLower(StrStrip(tbl.cols[1]))
C22_RestOfHeader == [j \in 1..(Len(tbl.cols) - 1) |-> StrStrip(tbl.cols[j + 1])]
\* rows are cells: one matrix row per table row, one column per further column
C22_RowsAreCells ==
    /\ Len(res.m.index) = Len(tbl.rows)
    /\ res.m.columns = C22_RestOfHeader
\* transposed: one matrix row per further column of the table
C22_CellsBecomeRows ==
    /\ [r \in 1..Len(res.m.index) |-> res.m.index[r].v] = C22_RestOfHeader
    /\ Len(res.m.columns) = Len(tbl.rows)
C22_Layout(a) ==
    IF C22_IsLong(a) THEN res.ok /\ res.layout = "long"
    ELSE /\ res.layout # "long"
         /\ Len(tbl.cols) >= 2 =>
                /\ res.ok
                /\ IF C22_First \in a.first_cell
                   THEN res.layout = "wide" /\ C22_RowsAreCells
                   ELSE IF C22_First \in a.first_gene
                   THEN res.layout = "transposed" /\ C22_CellsBecomeRows
                   ELSE res.layout = "ambiguous" /\ C22_RowsAreCells

\* C22: the CosMx, Xenium and Visium HD table loaders take a table as long
\* exactly when cell_id, gene and count columns all resolve and the table has
\* at most 6 columns; any other table (of two columns or more) is wide, with
\* cells as rows under a cell-id first column, transposed under a gene first
\* column, and indexed by its first column with an advisory otherwise; the
\* MERSCOPE loader never takes the long path
C22_LongOrWide ==
    /\ C22_TableLoaded => C22_Layout(C22_Aliases[plat])
    /\ pc = "expression" /\ plat = "merscope" => res.layout # "long"

\* seven columns with cell_id, gene and count among them, gene first: the
\* Xenium loader transposed the table
C22_Witness ==
    /\ pc = "expression"
    /\ plat = "xenium"
    /\ tbl.cols = <<"gene", "cell_id", "count", "a", "b", "c", "d">>
    /\ res.layout = "transposed"

(***************************************************************************)
(* C23: of two columns with the same lowercased-trimmed name               *)
(***************************************************************************)
C23_Lowered(j) == StrLower(StrStrip(tbl.cols[j]))
\* the pairs of a column and a later column of the same lowercased-trimmed name
C23_Duplicates ==
    {p \in (1..Len(tbl.cols)) \X (1..Len(tbl.cols)) :
        p[1] < p[2] /\ C23_Lowered(p[1]) = C23_Lowered(p[2])}
\* the cells of column j as a coordinate column holds them
C23_Coordinates(j) == [r \in 1..Len(tbl.rows) |-> ToNumeric(tbl.rows[r][j])]
\* no two columns of the table hold the same cells
C23_DistinctColumns ==
    /\ tbl.rows # <<>>
    /\ \A i, j \in 1..Len(tbl.cols) : i # j => C23_Coordinates(i) # C23_Coordinates(j)
\* neither coordinate of the output was read from the later column of a pair
C23_LaterNeverSelected(df) ==
    \A p \in C23_Duplicates :
        /\ Column(df, "x") # C23_Coordinates(p[2])
        /\ Column(df, "y") # C23_Coordinates(p[2])

\* C23: in the column resolution of every adapter's loaders, of the Visium
\* tissue-positions loader and of the tabular parser, of two source columns
\* with the same lowercased-trimmed name the first in table order is the one an
\* alias resolves to, and the later one is never selected
C23_FirstDuplicateWins ==
    C23_DistinctColumns =>
        /\ pc \in {"cells", "transcripts"} /\ res.ok => C23_LaterNeverSelected(res.df)
        /\ pc = "parsed_tabular" /\ out.ok => C23_LaterNeverSelected(out.cell_metadata)

\* the Visium loader read a table with the columns pxl_col_in_fullres and
\* PXL_COL_IN_FULLRES, in this order, and took x from the later one
C23_Witness ==
    /\ pc = "cells"
    /\ plat = "visium"
    /\ tbl.cols = <<"barcode", "pxl_row_in_fullres", "pxl_col_in_fullres", "PXL_COL_IN_FULLRES">>
    /\ res.ok
    /\ Column(res.df, "x") = C23_Coordinates(4)

(***************************************************************************)
(* C24: one coordinate system for x and y in the Visium HD positions       *)
(***************************************************************************)
C24_PixelRow == Resolve(tbl, <<"pxl_row_in_fullres", "pixel_row", "pxl_row", "row_px">>)
C24_PixelCol == Resolve(tbl, <<"pxl_col_in_fullres", "pixel_col", "pxl_col", "col_px">>)
C24_ArrayRow == Resolve(tbl, <<"array_row", "row", "grid_row">>)
C24_ArrayCol == Resolve(tbl, <<"array_col", "col", "grid_col">>)
C24_PixelPair == C24_PixelRow # None /\ C24_PixelCol # None
C24_ArrayPair == C24_ArrayRow # None /\ C24_ArrayCol # None
C24_NoPixel == C24_PixelRow = None /\ C24_PixelCol = None
C24_PositionsRead ==
    /\ pc = "cells" /\ plat = "visium_hd"
    /\ tbl.rows # <<>>
    /\ Resolve(tbl, <<"barcode", "barcodes", "spot", "spot_id", "cell_id">>) # None
    /\ Resolve(tbl, <<"in_tissue", "tissue">>) = None
C24_Source(name) == MapCol(ToNumeric, Column(StandardizeColumns(tbl), StrStrip(name)))
\* x and y of the output are the cells of the columns col and row
C24_From(col, row) ==
    /\ col # None /\ row # None
    /\ Column(res.df, "x") = C24_Source(col)
    /\ Column(res.df, "y") = C24_Source(row)

\* C24: the Visium HD positions loader takes x and y from the pixel columns
\* when they are present and from the array columns only when the pixel
\* columns are entirely absent; without a complete pixel pair and without a
\* complete array pair the load is fatal; a loaded table never has one axis
\* from a pixel column and the other from an array column
C24_OneCoordinateSystem ==
    C24_PositionsRead =>
        /\ C24_PixelPair => res.ok /\ C24_From(C24_PixelCol, C24_PixelRow)
        /\ C24_NoPixel /\ C24_ArrayPair => res.ok /\ C24_From(C24_ArrayCol, C24_ArrayRow)
        /\ ~C24_PixelPair /\ ~C24_ArrayPair => ~res.ok
        /\ res.ok => \/ C24_From(C24_PixelCol, C24_PixelRow)
                     \/ C24_From(C24_ArrayCol, C24_ArrayRow)

\* the table has pxl_col_in_fullres and array_row and no other coordinate: the
\* loader returned x from the pixel column and y from the array column
C24_Witness ==
    /\ C24_PositionsRead
    /\ tbl.cols = <<"barcode", "pxl_col_in_fullres", "array_row">>
    /\ res.ok
    /\ C24_From("pxl_col_in_fullres", "array_row")

(***************************************************************************)
(* C25: parse_visium finds the tissue positions the detector relied on     *)
(***************************************************************************)
\* load_spatial returned a dataset for a directory detected as visium
C25_VisiumParsed == pc = "loaded" /\ det.ok /\ det.platform = "visium" /\ out.ok
\* the tissue-positions artifacts under spatial/ that satisfy the detector
C25_Relied ==
    {c \in Child(input.node, "spatial").kids : StrLower(c.name) \in TissuePositionNames}

\* C25: whenever the detector classifies a directory as visium, parse_visium
\* on the same directory discovers the tissue-positions artifact the detector
\* relied on: the dataset's cell table is not the empty placeholder and the
\* artifact is recorded as the tissue_positions file
C25_PositionsDiscovered ==
    C25_VisiumParsed =>
        /\ out.cell_metadata # EmptyCellMetadataDf
        /\ \E c \in C25_Relied :
               out.metadata["files"].v.tissue_positions
                   = PathStr(input.parts \o <<"spatial", c.name>>)

\* spatial/ holds tissue_positions.parquet only: the detector answered visium
\* and parse_visium returned the empty cell table
C25_Witness ==
    /\ C25_VisiumParsed
    /\ {c.name : c \in Child(input.node, "spatial").kids} = {"tissue_positions.parquet"}
    /\ out.cell_metadata = EmptyCellMetadataDf

(***************************************************************************)
(* C26: parse_visium and a MEX directory next to an H5 matrix              *)
(***************************************************************************)
\* parse_visium ran on a directory that holds a feature-bc-matrix MEX directory
C26_MexDirs ==
    {c \in input.node.kids :
        IsDir(c) /\ c.name \in {"filtered_feature_bc_matrix", "raw_feature_bc_matrix"}}
C26_VisiumOnMex ==
    /\ pc = "loaded" /\ det.ok /\ det.platform = "visium"
    /\ C26_MexDirs # {}
    /\ \A c \in C26_MexDirs : VisiumLoadMexDir(Path(input.parts \o <<c.name>>, c)).ok
C26_Preferred ==
    IF \E c \in C26_MexDirs : c.name = "filtered_feature_bc_matrix"
    THEN "filtered_feature_bc_matrix" ELSE "raw_feature_bc_matrix"

\* C26: for a Visium directory with a loadable feature-bc-matrix MEX directory
\* (filtered or raw) parse_visium returns an expression matrix loaded from a
\* MEX directory, the filtered one before the raw one; a *.h5 matrix file next
\* to it never makes the call fail
C26_MexDirectoryLoads ==
    C26_VisiumOnMex =>
        /\ out.ok
        /\ out.metadata["files"].v.expression = PathStr(input.parts \o <<C26_Preferred>>)
        /\ out.expression_matrix
               = VisiumLoadMexDir(Path(input.parts \o <<C26_Preferred>>,
                                       Child(input.node, C26_Preferred))).m

\* the directory holds filtered_feature_bc_matrix/ and
\* filtered_feature_bc_matrix.h5: parse_visium raised on the H5 file
C26_Witness ==
    /\ C26_VisiumOnMex
    /\ HasChild(input.node, "filtered_feature_bc_matrix.h5")
    /\ HasChild(input.node, "filtered_feature_bc_matrix")
    /\ ~out.ok
    /\ out.err = "h5_unsupported"

(***************************************************************************)
(* C27: the bin the detector relied on and the bin parse_visium_hd selects *)
(***************************************************************************)
\* the directories of binned_outputs/, and those of them that pass the test of
\* _looks_like_visium_hd_root
C27_Bins ==
    IF ExistsDir(input, "binned_outputs")
    THEN {d \in Child(input.node, "binned_outputs").kids : IsDir(d)} ELSE {}
C27_Passing ==
    {d \in C27_Bins : LooksLikeVisiumRoot(d, LowerNames(d)) \/ "spatial" \in LowerNames(d)}
C27_PassingRoots == {Join(Join(input, "binned_outputs"), d.name) : d \in C27_Passing}
C27_DetectedByBin ==
    /\ pc = "loaded" /\ det.ok /\ det.platform = "visium_hd"
    /\ C27_Passing # {}

\* C27: when a directory is detected as visium_hd because a subdirectory of
\* binned_outputs/ has a spatial child, the root parse_visium_hd selects is one
\* of the subdirectories that pass that test
C27_SelectedBinPasses ==
    C27_DetectedByBin =>
        /\ DiscoverVisiumRoot(input).root \in C27_PassingRoots
        /\ out.ok => \E r \in C27_PassingRoots :
                         out.metadata["selected_root"] = MetaStr(PathStr(r.parts))

\* square_008um has spatial/, square_002um has none: parse_visium_hd selected
\* square_002um and returned without positions
C27_Witness ==
    /\ C27_DetectedByBin
    /\ {d.name : d \in C27_Bins} = {"square_002um", "square_008um"}
    /\ {d.name : d \in C27_Passing} = {"square_008um"}
    /\ out.ok
    /\ out.metadata["bin"] = MetaStr("square_002um")
    /\ out.cell_metadata = EmptyCellMetadataDf

(***************************************************************************)
(* C28: one file, one role                                                 *)
(***************************************************************************)
C28_FilesDiscovered == pc = "discovered" /\ plat \in {"cosmx", "xenium", "merscope"}
C28_Roles == {"transcript", "cell_metadata", "expression"}

\* C28: the paths _discover_files of cosmx, xenium and merscope chooses for
\* transcript, cell metadata and expression are pairwise distinct whenever
\* they are present
C28_RolesPairwiseDistinct ==
    C28_FilesDiscovered =>
        \A r1, r2 \in C28_Roles :
            (r1 # r2 /\ Found(out.files[r1]) /\ Found(out.files[r2]))
                => out.files[r1] # out.files[r2]

\* a directory holding only cells_by_gene.csv: merscope chose it as the cell
\* metadata and as the expression matrix
C28_Witness ==
    /\ C28_FilesDiscovered
    /\ plat = "merscope"
    /\ {c.name : c \in input.node.kids} = {"cells_by_gene.csv"}
    /\ Found(out.files.cell_metadata)
    /\ out.files.cell_metadata = out.files.expression

(***************************************************************************)
(* C29: discovery and the order in which the directory is listed           *)
(***************************************************************************)
C29_Discovered == pc = "discovered"

\* the same directory, with the same entries, listed in every order
C29_Relistings ==
    IF ExistsDir(input, "binned_outputs")
    THEN {Path(input.parts,
               Dir(input.node.name, <<Dir("binned_outputs", l)>>)) :
              l \in Orders(Child(input.node, "binned_outputs").kids)}
    ELSE {Path(input.parts, Dir(input.node.name, l)) : l \in Orders(input.node.kids)}

\* the paths a discoverer chose, as strings
C29_FilePaths(c) ==
    [transcript |-> c.transcript.parts, cell_metadata |-> c.cell_metadata.parts,
     expression |-> c.expression.parts,
     json_files |-> [i \in 1..Len(c.json_files) |-> c.json_files[i].parts]]
C29_RootPath(r) == [root |-> r.root.parts, bin_name |-> r.bin_name]

C29_Choice(p, q) ==
    CASE p = "cosmx" -> C29_FilePaths(CosmxDiscoverFiles(q))
      [] p = "xenium" -> C29_FilePaths(XeniumDiscoverFiles(q))
      [] p = "merscope" -> C29_FilePaths(MerscopeDiscoverFiles(q))
      [] p = "visium_hd" -> C29_RootPath(DiscoverVisiumRoot(q))
C29_Returned ==
    IF plat = "visium_hd" THEN C29_RootPath(out.root) ELSE C29_FilePaths(out.files)

\* C29: for a fixed set of file and subdirectory names, the path chosen for
\* each role and the Visium HD bin chosen are the same for every order in
\* which the system lists the directory
C29_SameForEveryListing ==
    C29_Discovered => \A q \in C29_Relistings : C29_Choice(plat, q) = C29_Returned

\* binned_outputs/ holds square_008um and v2_square_008um, both of 8 um: listed
\* with v2_square_008um first that bin is selected, listed the other way round
\* square_008um is
C29_Witness ==
    /\ C29_Discovered
    /\ plat = "visium_hd"
    /\ ExistsDir(input, "binned_outputs")
    /\ Child(input.node, "binned_outputs").listing = <<"v2_square_008um", "square_008um">>
    /\ out.root.bin_name = "v2_square_008um"
    /\ \E q \in C29_Relistings : DiscoverVisiumRoot(q).bin_name = "square_008um"

(***************************************************************************)
(* C30: one metadata entry for every JSON sidecar that parses              *)
(***************************************************************************)
C30_SidecarsLoaded ==
    /\ pc = "loaded" /\ det.ok /\ det.platform \in {"visium", "merscope"}
    /\ out.ok

\* the sidecars the adapter discovered, and those of them that parse
C30_Sidecars ==
    LET json_files == IF det.platform = "visium" THEN VisiumDiscoverFiles(input).json_files
                      ELSE MerscopeDiscoverFiles(input).json_files
    IN  Range(json_files)
C30_Parsed == {p \in C30_Sidecars : Readable(p)}

\* the entries of the metadata that come from sidecars: all but the ones the
\* adapter (input_dir, files) and load_spatial (detection) add
C30_Entries == DOMAIN out.metadata \ {"input_dir", "files", "detection"}

\* C30: after loading, the metadata has as many sidecar entries as discovered
\* sidecars parsed, also when sidecars found in different directories share a
\* file name
C30_OneEntryPerParsedSidecar ==
    C30_SidecarsLoaded => Cardinality(C30_Entries) = Cardinality(C30_Parsed)

\* spatial/scalefactors.json and scalefactors.json of the Visium directory
\* both parse: the metadata holds one entry scalefactors.json
C30_Witness ==
    /\ C30_SidecarsLoaded
    /\ det.platform = "visium"
    /\ Cardinality(C30_Parsed) = 2
    /\ {p.node.name : p \in C30_Parsed} = {"scalefactors.json"}
    /\ C30_Entries = {"scalefactors.json"}

===========================================================================
